---- MODULE Spec2Model ----
(***************************************************************************)
(* matetb: a custom mate tablebase over a restricted game tree.            *)
(* The model covers MateTB::create_tb of matetb.cpp (serial) and of        *)
(* matetb_threaded.cpp (thread pool): initialize_tb, connect_children and  *)
(* generate_tb.  The chess rule engine (external/chess.hpp) is represented *)
(* by a finite table of positions with their legal moves.                  *)
(* A behaviour runs the serial program on some options and then the        *)
(* threaded program on the same options.                                   *)
(***************************************************************************)
EXTENDS Integers, Sequences, FiniteSets, TLC

(***************************************************************************)
(* Program constants (matetb.hpp).                                         *)
(***************************************************************************)
VALUE_NONE == 30001
VALUE_MATE == 30000
MAX_DEPTH == 2147483647

(***************************************************************************)
(* Bounds of the model.                                                    *)
(*   MaxDepth        largest finite --depth that is tried                  *)
(*   MaxConcurrency  largest --concurrency that is tried                   *)
(*   MinBatch        the floor of the batch size of the threaded variant   *)
(*                   (128 in the source), scaled down so that a table of   *)
(*                   a dozen positions is split into several batches       *)
(*   MaxIterations   cap of the pass counter of generate_tb: a pass        *)
(*                   starts only below it                                  *)
(*   HalfMoveDraw    the halfmove clock at which the engine reports a      *)
(*                   draw by the 50-move rule (100 in the engine), scaled  *)
(*                   down to the length of the mates of the table          *)
(*   MaxPv           the deepest recursion of obtain_pv that is followed   *)
(*   ScoreWindow     the functions on scores are run on the scores within  *)
(*                   this distance of -MATE, of 0 and of MATE              *)
(*   MaxLines        the most lines of --openingMoves that are tried       *)
(*   MaxReplayLines  the most lines that are tried when the moves before   *)
(*                   a placeholder need not be legal                       *)
(*   MaxTbSize       the largest table on which a pass is run on its own   *)
(***************************************************************************)
MaxDepth == 3
MaxConcurrency == 2
MinBatch == 4
MaxIterations == 8
HalfMoveDraw == 4
MaxPv == 12
ScoreWindow == 250
MaxLines == 3
MaxReplayLines == 2
MaxTbSize == 11

(***************************************************************************)
(* score_t is std::int16_t.                                                *)
(***************************************************************************)
ToInt16(x) == ((x + 32768) % 65536) - 32768

Max2(a, b) == IF a >= b THEN a ELSE b
Min2(a, b) == IF a <= b THEN a ELSE b

(***************************************************************************)
(* The rule engine.  A move carries what the program asks the engine       *)
(* about it; next is the position the move leads to.                       *)
(***************************************************************************)
Mv(uci, from, to, san, cap, promo, next) ==
  [uci |-> uci, from |-> from, to |-> to, san |-> san, cap |-> cap,
   promo |-> promo, next |-> next]

Node(stm, inCheck, attacked, moves) ==
  [stm |-> stm, inCheck |-> inCheck, attacked |-> attacked, moves |-> moves]

\* The positions of the game: side to move, in check, the squares the
\* opponent attacks, and the legal moves in generation order.  Distinct
\* legal moves of a position lead to distinct positions, and the side to
\* move alternates.
Universe ==
  [A  |-> Node("w", FALSE, {"a3"},
            << Mv("a1a2", "a1", "a2", "Ra2", "", "", "B1"),
               Mv("a1a3", "a1", "a3", "Ra3", "", "", "B2"),
               Mv("k1k2", "k1", "k2", "Kk2", "", "", "B3") >>),
   B1 |-> Node("b", FALSE, {},
            << Mv("h8g8", "h8", "g8", "Kg8", "", "", "C1"),
               Mv("h8g7", "h8", "g7", "Kg7", "", "", "C2") >>),
   B2 |-> Node("b", FALSE, {},
            << Mv("h8g7", "h8", "g7", "Kxg7", "p", "", "C2"),
               Mv("h8h7", "h8", "h7", "Kh7", "", "", "C3") >>),
   B3 |-> Node("b", FALSE, {},
            << Mv("h8h7", "h8", "h7", "Kh7", "", "", "C3"),
               Mv("h8g8", "h8", "g8", "Kg8", "", "", "C4") >>),
   C1 |-> Node("w", FALSE, {},
            << Mv("a2a8", "a2", "a8", "Ra8#", "", "", "D1") >>),
   C2 |-> Node("w", FALSE, {},
            << Mv("a2b2", "a2", "b2", "Rb2", "", "", "D2") >>),
   C3 |-> Node("w", FALSE, {"b3"},
            << Mv("k2k1", "k2", "k1", "Kk1", "", "", "B3"),
               Mv("a3a8", "a3", "a8", "Ra8#", "", "", "D1"),
               Mv("a3b3", "a3", "b3", "Rb3", "", "", "D3") >>),
   C4 |-> Node("w", FALSE, {},
            << Mv("a1b1", "a1", "b1", "Rb1", "", "", "B3") >>),
   D1 |-> Node("b", TRUE, {}, << >>),
   D2 |-> Node("b", FALSE, {},
            << Mv("g7g8", "g7", "g8", "Kg8", "", "", "C1"),
               Mv("g7f6", "g7", "f6", "Kf6#", "", "", "E1") >>),
   D3 |-> Node("b", FALSE, {}, << >>),
   E1 |-> Node("w", TRUE, {}, << >>),
   R1 |-> Node("w", FALSE, {},
            << Mv("b1b2", "b1", "b2", "Rb2", "", "", "S1") >>),
   R2 |-> Node("w", FALSE, {},
            << Mv("h1b2", "h1", "b2", "Rxb2", "b", "", "S1") >>),
   S1 |-> Node("b", FALSE, {},
            << Mv("h8h7", "h8", "h7", "Kh7", "", "", "T1") >>),
   T1 |-> Node("w", FALSE, {},
            << Mv("b2b3", "b2", "b3", "Rb3", "", "", "U1") >>),
   U1 |-> Node("b", FALSE, {},
            << Mv("h7h8", "h7", "h8", "Kh8", "", "", "V1") >>),
   V1 |-> Node("w", FALSE, {"g8"},
            << Mv("g7g8q", "g7", "g8", "g8=Q", "", "q", "D3"),
               Mv("b3b8", "b3", "b8", "Rb8#", "", "", "D1") >>),
   F1 |-> Node("w", FALSE, {"c7"},
            << Mv("c1c7", "c1", "c7", "Rc7+", "", "", "G1"),
               Mv("c1c2", "c1", "c2", "Rc2", "", "", "G2"),
               Mv("c1d1", "c1", "d1", "Rxd1", "n", "", "G3") >>),
   G1 |-> Node("b", TRUE, {},
            << Mv("d8c7", "d8", "c7", "Kxc7", "r", "", "H1"),
               Mv("d8e8", "d8", "e8", "Ke8", "", "", "H2") >>),
   G2 |-> Node("b", FALSE, {},
            << Mv("d1e3", "d1", "e3", "Ne3", "", "", "H3"),
               Mv("d8e8", "d8", "e8", "Ke8", "", "", "H4") >>),
   G3 |-> Node("b", FALSE, {},
            << Mv("d8e7", "d8", "e7", "Ke7", "", "", "H5") >>),
   H1 |-> Node("w", FALSE, {}, << >>),
   H2 |-> Node("w", FALSE, {}, << >>),
   H3 |-> Node("w", FALSE, {}, << >>),
   H4 |-> Node("w", FALSE, {}, << >>),
   H5 |-> Node("w", FALSE, {}, << >>),
   \* a loss in which the quick win of the reply K1 goes through K2, a
   \* position that was inserted before K3
   K0 |-> Node("b", FALSE, {},
            << Mv("h8g8", "h8", "g8", "Kg8", "", "", "K1"),
               Mv("h8h7", "h8", "h7", "Kh7", "", "", "K2") >>),
   K1 |-> Node("w", FALSE, {},
            << Mv("c1c2", "c1", "c2", "Rc2", "", "", "K3"),
               Mv("c1c3", "c1", "c3", "Rc3", "", "", "K4") >>),
   K2 |-> Node("w", FALSE, {},
            << Mv("c1c8", "c1", "c8", "Rc8#", "", "", "D1") >>),
   K3 |-> Node("b", FALSE, {},
            << Mv("g8h7", "g8", "h7", "Kh7", "", "", "K2") >>),
   K4 |-> Node("b", FALSE, {},
            << Mv("g8f8", "g8", "f8", "Kf8", "", "", "K5") >>),
   K5 |-> Node("w", FALSE, {},
            << Mv("c3c4", "c3", "c4", "Rc4", "", "", "K6") >>),
   K6 |-> Node("b", FALSE, {},
            << Mv("f8g8", "f8", "g8", "Kg8", "", "", "K7") >>),
   K7 |-> Node("w", FALSE, {},
            << Mv("c4c8", "c4", "c8", "Rc8#", "", "", "D1") >>)]

Positions == DOMAIN Universe

Opposite(c) == IF c = "w" THEN "b" ELSE "w"

\* A Board is a position and its halfmove clock; the compact encoding
\* (the key of fen2index) and the FEN without clocks carry the position only.
Encode(board) == board.pos
Decode(pfen) == [pos |-> pfen, hmc |-> 0]
getFen(board) == board.pos
sideToMove(board) == Universe[board.pos].stm
inCheck(board) == Universe[board.pos].inCheck
legalmoves(board) == Universe[board.pos].moves
isCapture(board, move) == move.cap # ""
isAttacked(board, sq) == sq \in Universe[board.pos].attacked
makeMove(board, move) ==
  [pos |-> move.next,
   hmc |-> IF move.cap # "" THEN 0 ELSE board.hmc + 1]
\* uci::uciToMove: the legal move with that UCI string, or no move
uciToMove(board, uci) ==
  LET ms == legalmoves(board)
      hit == {k \in 1..Len(ms) : ms[k].uci = uci}
  IN IF hit = {} THEN [uci |-> "0000"] ELSE ms[CHOOSE k \in hit : TRUE]
moveToUci(move) == move.uci
\* the halfmove clock has reached the limit of the 50-move rule
isHalfMoveDraw(board) == board.hmc >= HalfMoveDraw
\* getHalfMoveDrawType().second == GameResult::DRAW: a checkmate on the
\* board is a loss, anything else a draw
HalfMoveDrawIsDraw(board) ==
  ~(Len(legalmoves(board)) = 0 /\ inCheck(board))
\* isGameOver().second == GameResult::DRAW: the 50-move rule, or stalemate
isGameOverDraw(board) ==
  IF isHalfMoveDraw(board) THEN HalfMoveDrawIsDraw(board)
  ELSE Len(legalmoves(board)) = 0 /\ ~inCheck(board)

(***************************************************************************)
(* The move restrictions of the command line.                              *)
(***************************************************************************)
NoFilter ==
  [excludeMoves |-> {}, excludeSANs |-> {}, excludeFrom |-> {},
   excludeTo |-> {}, excludeCaptures |-> FALSE, excludeCapturesOf |-> {},
   excludeToAttacked |-> FALSE, excludePromotionTo |-> {},
   excludeToCapturable |-> FALSE, excludeAllowingCapture |-> FALSE,
   excludeAllowingFrom |-> {}, excludeAllowingTo |-> {},
   excludeAllowingMoves |-> {}, excludeAllowingSANs |-> {}]

Filters ==
  { NoFilter,
    [NoFilter EXCEPT !.excludeFrom = {"k1"}, !.excludeTo = {"g7"}],
    [NoFilter EXCEPT !.excludeAllowingCapture = TRUE],
    [NoFilter EXCEPT !.excludeToAttacked = TRUE, !.excludeSANs = {"Kg8"}] }

needToGenerateResponses(f) ==
  \/ f.excludeToCapturable
  \/ f.excludeAllowingCapture
  \/ f.excludeAllowingFrom # {}
  \/ f.excludeAllowingTo # {}
  \/ f.excludeAllowingMoves # {}
  \/ f.excludeAllowingSANs # {}

\* variant of allowed_move whose reply filters reject a move only when
\* every reply matches
allowed_move_everyreply(f, mating_side, board, move) ==
  IF sideToMove(board) # mating_side THEN TRUE
  ELSE IF move.uci \in f.excludeMoves THEN FALSE
  ELSE IF move.san \in f.excludeSANs THEN FALSE
  ELSE IF move.from \in f.excludeFrom THEN FALSE
  ELSE IF move.to \in f.excludeTo THEN FALSE
  ELSE IF f.excludeCaptures /\ isCapture(board, move) THEN FALSE
  ELSE IF /\ ~f.excludeCaptures
          /\ f.excludeCapturesOf # {}
          /\ isCapture(board, move)
          /\ move.cap \in f.excludeCapturesOf THEN FALSE
  ELSE IF f.excludeToAttacked /\ isAttacked(board, move.to) THEN FALSE
  ELSE IF /\ f.excludePromotionTo # {}
          /\ move.promo # ""
          /\ move.promo \in f.excludePromotionTo THEN FALSE
  ELSE IF needToGenerateResponses(f)
       THEN LET after == makeMove(board, move)
                replies == legalmoves(after)
            IN ~ \A k \in 1..Len(replies) :
                   LET m == replies[k] IN
                     \/ /\ f.excludeToCapturable
                        /\ isCapture(after, m)
                        /\ m.to = move.to
                     \/ f.excludeAllowingCapture /\ isCapture(after, m)
                     \/ m.from \in f.excludeAllowingFrom
                     \/ m.to \in f.excludeAllowingTo
                     \/ m.uci \in f.excludeAllowingMoves
                     \/ m.san \in f.excludeAllowingSANs
       ELSE TRUE

\* MateTB::allowed_move
allowed_move(f, mating_side, board, move) ==
  IF sideToMove(board) # mating_side THEN TRUE
  ELSE IF move.uci \in f.excludeMoves THEN FALSE
  ELSE IF move.san \in f.excludeSANs THEN FALSE
  ELSE IF move.from \in f.excludeFrom THEN FALSE
  ELSE IF move.to \in f.excludeTo THEN FALSE
  ELSE IF f.excludeCaptures /\ isCapture(board, move) THEN FALSE
  ELSE IF /\ ~f.excludeCaptures
          /\ f.excludeCapturesOf # {}
          /\ isCapture(board, move)
          /\ move.cap \in f.excludeCapturesOf THEN FALSE
  ELSE IF f.excludeToAttacked /\ isAttacked(board, move.to) THEN FALSE
  ELSE IF /\ f.excludePromotionTo # {}
          /\ move.promo # ""
          /\ move.promo \in f.excludePromotionTo THEN FALSE
  ELSE IF needToGenerateResponses(f)
       THEN LET after == makeMove(board, move)
                replies == legalmoves(after)
            IN ~ \E k \in 1..Len(replies) :
                   LET m == replies[k] IN
                     \/ /\ f.excludeToCapturable
                        /\ isCapture(after, m)
                        /\ m.to = move.to
                     \/ f.excludeAllowingCapture /\ isCapture(after, m)
                     \/ m.from \in f.excludeAllowingFrom
                     \/ m.to \in f.excludeAllowingTo
                     \/ m.uci \in f.excludeAllowingMoves
                     \/ m.san \in f.excludeAllowingSANs
       ELSE TRUE

\* The Board object of a call: the board and the states that makeMove has
\* saved for unmakeMove.
BoardObject(board) == [board |-> board, prev_states |-> << >>]
\* board.makeMove(move) on the object
makeMoveOn(obj, move) ==
  [board |-> makeMove(obj.board, move),
   prev_states |-> Append(obj.prev_states, obj.board)]
\* board.unmakeMove(move): back to the state saved last
unmakeMove(obj, move) ==
  [board |-> obj.prev_states[Len(obj.prev_states)],
   prev_states |-> SubSeq(obj.prev_states, 1, Len(obj.prev_states) - 1)]

\* the filters that allowed_move asks before it generates the replies
BeforeResponses(f) ==
  [f EXCEPT !.excludeToCapturable = FALSE, !.excludeAllowingCapture = FALSE,
            !.excludeAllowingFrom = {}, !.excludeAllowingTo = {},
            !.excludeAllowingMoves = {}, !.excludeAllowingSANs = {}]

\* variant of board_after_allowed_move that returns from inside the loop
\* over the replies without unmakeMove
board_after_allowed_move_early(f, mating_side, obj, move) ==
  IF sideToMove(obj.board) # mating_side THEN obj
  ELSE IF ~allowed_move(BeforeResponses(f), mating_side, obj.board, move)
  THEN obj
  ELSE IF needToGenerateResponses(f)
  THEN LET made == makeMoveOn(obj, move)
       IN IF ~allowed_move(f, mating_side, obj.board, move)
          THEN made
          ELSE unmakeMove(made, move)
  ELSE obj

\* MateTB::allowed_move: the Board object the caller has after the call
board_after_allowed_move(f, mating_side, obj, move) ==
  IF sideToMove(obj.board) # mating_side THEN obj
  ELSE IF ~allowed_move(BeforeResponses(f), mating_side, obj.board, move)
  THEN obj
  ELSE IF needToGenerateResponses(f)
  THEN LET made == makeMoveOn(obj, move)
       IN IF ~allowed_move(f, mating_side, obj.board, move)
          THEN unmakeMove(made, move)  \* a reply rejects: unmake, return
          ELSE unmakeMove(made, move)  \* no reply rejects: after the loop
  ELSE obj

(***************************************************************************)
(* The opening book.  A line is a sequence of UCI strings played from the  *)
(* root; the book maps the position before each move of the mating side   *)
(* to that move.                                                           *)
(***************************************************************************)
RECURSIVE RecordLine(_, _, _, _)
RecordLine(board, mating_side, moves, book) ==
  IF moves = << >> THEN book
  ELSE LET move_str == Head(moves)
           fen == getFen(board)
           book1 == IF sideToMove(board) = mating_side
                    THEN [k \in DOMAIN book \cup {fen} |->
                            IF k = fen THEN move_str ELSE book[k]]
                    ELSE book
       IN RecordLine(makeMove(board, uciToMove(board, move_str)),
                     mating_side, Tail(moves), book1)

EmptyBook == [k \in {} |-> ""]

\* the --openingMoves that are tried: none, or one line from the root
OpeningLines(root) ==
  IF root = "A" THEN { << >>, <<"a1a3", "h8h7", "a3b3">>, <<"k1k2", "h8h7">> }
  ELSE { << >> }

prepare_opening_book(root_pos, mating_side, line) ==
  RecordLine([pos |-> root_pos, hmc |-> 0], mating_side, line, EmptyBook)

(***************************************************************************)
(* Scores.                                                                 *)
(***************************************************************************)
\* variant of propagate that does not count the ply
propagate_noply(score) ==
  IF score # 0 THEN ToInt16(-score) ELSE score

\* the score of a child seen from its parent (generate_tb)
propagate(score) ==
  IF score # 0 THEN ToInt16(-score + (IF score > 0 THEN 1 ELSE -1)) ELSE score

\* variant of mate_or_zero that does not ask whether the side is in check
mate_or_zero_nocheck(board) ==
  IF Len(legalmoves(board)) = 0 THEN -VALUE_MATE ELSE 0

\* the terminal score of a position (initialize_tb)
mate_or_zero(board) ==
  IF Len(legalmoves(board)) = 0 /\ inCheck(board) THEN -VALUE_MATE ELSE 0

\* variant of spawn that asks allowed_move about the book move too
RECURSIVE spawn_filtered(_, _, _, _, _, _)
spawn_filtered(f, mating_side, book, board, moves, onlyMove) ==
  IF moves = << >> THEN << >>
  ELSE LET move == Head(moves)
           rest == spawn_filtered(f, mating_side, book, board, Tail(moves),
                                  onlyMove)
       IN IF onlyMove # "" /\ move # uciToMove(board, onlyMove) THEN rest
          ELSE IF ~allowed_move(f, mating_side, board, move) THEN rest
          ELSE <<Encode(makeMove(board, move))>> \o rest

\* the candidate successors of a position, in generation order:
\* the book move if the book has the position, else the allowed moves
RECURSIVE spawn(_, _, _, _, _, _)
spawn(f, mating_side, book, board, moves, onlyMove) ==
  IF moves = << >> THEN << >>
  ELSE LET move == Head(moves)
           rest == spawn(f, mating_side, book, board, Tail(moves), onlyMove)
       IN IF onlyMove # "" /\ move # uciToMove(board, onlyMove) THEN rest
          ELSE IF onlyMove = "" /\ ~allowed_move(f, mating_side, board, move)
          THEN rest
          ELSE <<Encode(makeMove(board, move))>> \o rest

spawn_allowed_children(f, mating_side, book, pfen) ==
  LET board == Decode(pfen)
      fen == getFen(board)
      onlyMove == IF book # EmptyBook /\ fen \in DOMAIN book
                  THEN book[fen] ELSE ""
  IN spawn(f, mating_side, book, board, legalmoves(board), onlyMove)

\* variant of children_of that stops at the first successor that is no key
RECURSIVE children_of_break(_, _, _)
children_of_break(map, board, moves) ==
  IF moves = << >> THEN << >>
  ELSE LET child_pfen == Encode(makeMove(board, Head(moves)))
       IN IF child_pfen \in DOMAIN map
          THEN <<map[child_pfen]>> \o children_of_break(map, board, Tail(moves))
          ELSE << >>

\* the ids of the legal successors that are keys of fen2index, in order
RECURSIVE children_of(_, _, _)
children_of(map, board, moves) ==
  IF moves = << >> THEN << >>
  ELSE LET child_pfen == Encode(makeMove(board, Head(moves)))
           rest == children_of(map, board, Tail(moves))
       IN IF child_pfen \in DOMAIN map THEN <<map[child_pfen]>> \o rest
          ELSE rest

\* best_score after the read of the score of one more child
better(best_score, score) ==
  IF best_score = VALUE_NONE \/ score > best_score THEN score ELSE best_score

\* variant of best_of that keeps the score of the first child
best_of_first(table, children, best_score) ==
  IF children = << >> THEN best_score
  ELSE propagate(table[Head(children)].score)

\* the inner loop of generate_tb over the children of one node
RECURSIVE best_of(_, _, _)
best_of(table, children, best_score) ==
  IF children = << >> THEN best_score
  ELSE LET score == propagate(table[Head(children)].score)
       IN best_of(table, Tail(children), better(best_score, score))

\* integer division of C++: the quotient is truncated towards zero
Quot(a, b) == IF a >= 0 THEN a \div b ELSE -((-a) \div b)

\* variant of score2mate that forgets the + 1 of the winning side
score2mate_floor(score) ==
  IF score > 0 THEN ToInt16(Quot(VALUE_MATE - score, 2))
  ELSE IF score < 0 THEN ToInt16(Quot(-(VALUE_MATE + score), 2))
  ELSE VALUE_NONE

\* score2mate: the operands are promoted to int, the result is a score_t
score2mate(score) ==
  IF score > 0 THEN ToInt16(Quot(VALUE_MATE - score + 1, 2))
  ELSE IF score < 0 THEN ToInt16(Quot(-(VALUE_MATE + score), 2))
  ELSE VALUE_NONE

\* variant of probe_tb that reports an unknown position as a draw
probe_tb_zero(map, table, fen) ==
  LET pfen == Encode([pos |-> fen, hmc |-> 0])
  IN IF pfen \in DOMAIN map THEN table[map[pfen]].score ELSE 0

\* MateTB::probe_tb
probe_tb(map, table, fen) ==
  LET pfen == Encode([pos |-> fen, hmc |-> 0])
  IN IF pfen \in DOMAIN map THEN table[map[pfen]].score ELSE VALUE_NONE

\* the score of a move as obtain_pv and output compute it
move_score(map, table, board, move) ==
  LET score == probe_tb(map, table, getFen(makeMove(board, move)))
  IN IF score # VALUE_NONE /\ score # 0
     THEN ToInt16(-score + (IF score > 0 THEN 1 ELSE -1)) ELSE score

\* the comparison of std::max_element in obtain_pv: a is less than b
pv_less(a, b) ==
  IF a = VALUE_NONE THEN TRUE ELSE IF b = VALUE_NONE THEN FALSE ELSE a < b

\* variant of max_element that does not search
max_element_first(scores, largest, k) == largest

\* std::max_element: the first k such that no later search step replaces it
RECURSIVE max_element(_, _, _)
max_element(scores, largest, k) ==
  IF k > Len(scores) THEN largest
  ELSE max_element(scores,
                   IF pv_less(scores[largest], scores[k]) THEN k ELSE largest,
                   k + 1)

\* MateTB::obtain_pv; fuel counts the recursion depth that is left, and
\* "..." stands for a recursion that has not returned within it
RECURSIVE obtain_pv(_, _, _, _, _)
obtain_pv(map, table, mating_side, board, fuel) ==
  IF fuel = 0 THEN << "..." >>
  ELSE IF isGameOverDraw(board) THEN << >>
  ELSE IF /\ sideToMove(board) # mating_side
          /\ isHalfMoveDraw(board)
          /\ HalfMoveDrawIsDraw(board) THEN << "; draw by 50mr" >>
  ELSE IF Len(legalmoves(board)) = 0 THEN << >>
  ELSE LET ms == legalmoves(board)
           scores == [k \in 1..Len(ms) |-> move_score(map, table, board, ms[k])]
           bestmove == ms[max_element(scores, 1, 2)]
       IN << moveToUci(bestmove) >> \o
          obtain_pv(map, table, mating_side, makeMove(board, bestmove),
                    fuel - 1)

\* tb as a function on 0 .. size-1
TbSize(table) == Cardinality(DOMAIN table)
emplace_back(table, score) ==
  [k \in 0..TbSize(table) |->
     IF k < TbSize(table) THEN table[k]
     ELSE [score |-> score, children |-> << >>]]

\* fen2index[pfen] = id for a new key
emplace_preinc(map, pfen, id) ==
  [k \in DOMAIN map \cup {pfen} |-> IF k = pfen THEN id + 1 ELSE map[k]]

emplace(map, pfen, id) ==
  [k \in DOMAIN map \cup {pfen} |-> IF k = pfen THEN id ELSE map[k]]

VARIABLES
  options,        \* root, max_depth, mating_side, filter, concurrency
  openingBook,    \* book_t openingBook
  variant,        \* "serial" (matetb.cpp) or "threaded" (matetb_threaded.cpp)
  pc,             \* "init", "connect", "generate", "sweep", "done"
  fen2index,      \* the index map M
  tb,             \* the table T: id -> [score, children]
  q,              \* serial initialize_tb: the queue of <<pfen, depth>>
  count,          \* the id counter
  depth,          \* the current depth
  todo,           \* connect_children: the entries still to visit
  i,              \* serial generate_tb: the loop index
  changed,        \* generate_tb: the change counter
  iteration,      \* generate_tb: the pass counter
  current_level,  \* threaded initialize_tb: the frontier of this depth
  next_level,     \* threaded initialize_tb: the frontier of the next depth
  mate_score,     \* threaded initialize_tb: the <<pfen, score>> of the mates
  tasks,          \* the tasks of the thread pool of the current phase
  serial_result,  \* the (position, score) pairs the serial program ended with
  out,            \* what output() has printed
  file,           \* what write_tb has written to --outFile
  exit_code,      \* how the process has ended
  arg,            \* the input of a function that is run on its own
  res             \* the result of that function

vars == << options, openingBook, variant, pc, fen2index, tb, q, count, depth,
           todo, i, changed, iteration, current_level, next_level,
           mate_score, tasks, serial_result, out, file, exit_code,
           arg, res >>

\* nothing written yet
NoFile == [written |-> FALSE, lines |-> << >>]

\* nothing printed yet
NoOut == [line |-> "none", mate |-> 0, pv |-> << >>, sp |-> << >>]

\* the variables that only the threaded program uses
tvars == << current_level, next_level, mate_score, tasks >>

EmptyMap == [k \in {} |-> 0]
EmptyTb == [k \in {} |-> [score |-> 0, children |-> << >>]]

\* the options of a run: the EPD gives the root and the mating side
\* (the side to move, or the other side with "bm #-")
Option(r, d, s, f, c, l) ==
  [root |-> r, max_depth |-> d, mating_side |-> s, filter |-> f,
   concurrency |-> c, line |-> l]

Depths == (0..MaxDepth) \cup {MAX_DEPTH}

OptionSet ==
  { Option("A", d, "w", f, c, << >>) :
      d \in Depths, f \in Filters, c \in {1, MaxConcurrency} }
  \cup
  { Option("A", d, "w", NoFilter, MaxConcurrency, l) :
      d \in {2, MAX_DEPTH}, l \in OpeningLines("A") }
  \cup
  { Option("C2", d, "b", f, MaxConcurrency, << >>) :
      d \in {1, MAX_DEPTH},
      f \in {NoFilter, [NoFilter EXCEPT !.excludeTo = {"f6"}]} }
  \cup
  \* a lost root whose score is written twice
  { Option("K0", MAX_DEPTH, "w", NoFilter, c, << >>) :
      c \in {1, MaxConcurrency} }
  \cup
  \* mates of two and three moves, with and without a capture on the way
  { Option(r, MAX_DEPTH, "w", NoFilter, c, << >>) :
      r \in {"R1", "R2", "T1"}, c \in {1, MaxConcurrency} }
  \cup
  \* a root without legal moves: checkmate, stalemate
  { Option(r, d, s, NoFilter, MaxConcurrency, << >>) :
      r \in {"D1", "D3"}, d \in {0, MAX_DEPTH}, s \in {"w", "b"} }
  \cup
  \* a book move that the move restrictions reject
  { Option("A", MAX_DEPTH, "w", [NoFilter EXCEPT !.excludeFrom = {"k1"}],
           MaxConcurrency, <<"k1k2", "h8h7">>) }

Init ==
  /\ options \in OptionSet
  /\ openingBook =
       prepare_opening_book(options.root, options.mating_side, options.line)
  /\ variant = "serial"
  /\ pc = "init"
  /\ fen2index = EmptyMap
  /\ tb = EmptyTb
  /\ q = << <<Encode([pos |-> options.root, hmc |-> 0]), 0>> >>
  /\ count = 0
  /\ depth = 0
  /\ todo = << >>
  /\ i = 0
  /\ changed = 1
  /\ iteration = 0
  /\ current_level = << >>
  /\ next_level = << >>
  /\ mate_score = << >>
  /\ tasks = << >>
  /\ serial_result = {}
  /\ out = NoOut
  /\ file = NoFile
  /\ exit_code = "none"
  /\ arg = [fn |-> "none"]
  /\ res = [done |-> FALSE]

(***************************************************************************)
(* matetb.cpp: initialize_tb.  One action per turn of the while loop.      *)
(***************************************************************************)
\* the order in which a loop over fen2index visits its entries
IterOrders(map) ==
  LET n == Cardinality(DOMAIN map)
      key(id) == CHOOSE p \in DOMAIN map : map[p] = id
  IN { [k \in 1..n |-> key(k - 1)], [k \in 1..n |-> key(n - k)] }

\* while (!q.empty()) ends, or the front is deeper than max_depth: break
SInitEnd ==
  /\ variant = "serial" /\ pc = "init"
  /\ \/ q = << >> /\ depth' = depth
     \/ q # << >> /\ Head(q)[2] > options.max_depth /\ depth' = Head(q)[2] - 1
  /\ pc' = "connect"
  /\ todo' \in IterOrders(fen2index)
  /\ UNCHANGED << options, openingBook, variant, fen2index, tb, q, count, i,
                  changed, iteration, tvars, serial_result, out,
                  file, exit_code, arg, res >>

\* variant of SInitSkip that leaves the known position at the front
SInitSkip_stay ==
  /\ variant = "serial" /\ pc = "init"
  /\ q # << >>
  /\ Head(q)[2] <= options.max_depth
  /\ Head(q)[1] \in DOMAIN fen2index
  /\ depth' = Head(q)[2]
  /\ UNCHANGED << options, openingBook, variant, pc, fen2index, tb, q, count,
                  todo, i, changed, iteration, tvars, serial_result, out,
                  file, exit_code, arg, res >>

\* the front is already a key of fen2index: continue
SInitSkip ==
  /\ variant = "serial" /\ pc = "init"
  /\ q # << >>
  /\ Head(q)[2] <= options.max_depth
  /\ Head(q)[1] \in DOMAIN fen2index
  /\ depth' = Head(q)[2]
  /\ q' = Tail(q)
  /\ UNCHANGED << options, openingBook, variant, pc, fen2index, tb, count,
                  todo, i, changed, iteration, tvars, serial_result, out,
                  file, exit_code, arg, res >>

\* variant of SInitInsert that pushes the successors with the depth of
\* their parent
SInitInsert_samedepth ==
  /\ variant = "serial" /\ pc = "init"
  /\ q # << >>
  /\ Head(q)[2] <= options.max_depth
  /\ Head(q)[1] \notin DOMAIN fen2index
  /\ LET pfen == Head(q)[1]
         score == mate_or_zero(Decode(pfen))
         succ == spawn_allowed_children(options.filter, options.mating_side,
                                        openingBook, pfen)
     IN /\ depth' = Head(q)[2]
        /\ fen2index' = emplace(fen2index, pfen, count)
        /\ count' = count + 1
        /\ tb' = emplace_back(tb, score)
        /\ q' = IF score # 0 THEN Tail(q)
                ELSE Tail(q) \o [k \in 1..Len(succ) |->
                                   <<succ[k], Head(q)[2]>>]
  /\ UNCHANGED << options, openingBook, variant, pc, todo, i, changed,
                  iteration, tvars, serial_result, out,
                  file, exit_code, arg, res >>

\* variant of SInitInsert that pushes the successors to the front
SInitInsert_stack ==
  /\ variant = "serial" /\ pc = "init"
  /\ q # << >>
  /\ Head(q)[2] <= options.max_depth
  /\ Head(q)[1] \notin DOMAIN fen2index
  /\ LET pfen == Head(q)[1]
         score == mate_or_zero(Decode(pfen))
         succ == spawn_allowed_children(options.filter, options.mating_side,
                                        openingBook, pfen)
     IN /\ depth' = Head(q)[2]
        /\ fen2index' = emplace(fen2index, pfen, count)
        /\ count' = count + 1
        /\ tb' = emplace_back(tb, score)
        /\ q' = IF score # 0 THEN Tail(q)
                ELSE [k \in 1..Len(succ) |-> <<succ[k], Head(q)[2] + 1>>]
                       \o Tail(q)
  /\ UNCHANGED << options, openingBook, variant, pc, todo, i, changed,
                  iteration, tvars, serial_result, out,
                  file, exit_code, arg, res >>

\* the front is new: give it the next id, append its node, push its
\* candidate successors unless it is a mate
SInitInsert ==
  /\ variant = "serial" /\ pc = "init"
  /\ q # << >>
  /\ Head(q)[2] <= options.max_depth
  /\ Head(q)[1] \notin DOMAIN fen2index
  /\ LET pfen == Head(q)[1]
         score == mate_or_zero(Decode(pfen))
         succ == spawn_allowed_children(options.filter, options.mating_side,
                                        openingBook, pfen)
     IN /\ depth' = Head(q)[2]
        /\ fen2index' = emplace(fen2index, pfen, count)
        /\ count' = count + 1
        /\ tb' = emplace_back(tb, score)
        /\ q' = IF score # 0 THEN Tail(q)
                ELSE Tail(q) \o [k \in 1..Len(succ) |->
                                   <<succ[k], Head(q)[2] + 1>>]
  /\ UNCHANGED << options, openingBook, variant, pc, todo, i, changed,
                  iteration, tvars, serial_result, out,
                  file, exit_code, arg, res >>

(***************************************************************************)
(* matetb.cpp: connect_children.  One action per entry of fen2index.       *)
(***************************************************************************)
connect_entry(map, table, pfen) ==
  LET idx == map[pfen]
      board == Decode(pfen)
  IN IF table[idx].score # 0 THEN table
     ELSE [table EXCEPT ![idx].children =
             @ \o children_of(map, board, legalmoves(board))]

SConnectStep ==
  /\ variant = "serial" /\ pc = "connect"
  /\ todo # << >>
  /\ tb' = connect_entry(fen2index, tb, Head(todo))
  /\ todo' = Tail(todo)
  /\ UNCHANGED << options, openingBook, variant, pc, fen2index, q, count,
                  depth, i, changed, iteration, tvars, serial_result, out,
                  file, exit_code, arg, res >>

SConnectEnd ==
  /\ variant = "serial" /\ pc = "connect"
  /\ todo = << >>
  /\ pc' = "generate"
  /\ iteration' = 0
  /\ changed' = 1
  /\ UNCHANGED << options, openingBook, variant, fen2index, tb, q, count,
                  depth, todo, i, tvars, serial_result, out, file,
                  exit_code, arg, res >>

(***************************************************************************)
(* matetb.cpp: generate_tb.                                                *)
(***************************************************************************)
\* variant of SGenWhile that does not reset the change counter
SGenWhile_noreset ==
  /\ variant = "serial" /\ pc = "generate"
  /\ changed # 0
  /\ iteration < MaxIterations
  /\ i' = TbSize(tb) - 1
  /\ pc' = "sweep"
  /\ UNCHANGED << options, openingBook, variant, fen2index, tb, q, count,
                  depth, todo, changed, iteration, tvars, serial_result, out,
                  file, exit_code, arg, res >>

\* while (changed) { changed = 0; for (i = tb.size() - 1; ...
SGenWhile ==
  /\ variant = "serial" /\ pc = "generate"
  /\ changed # 0
  /\ iteration < MaxIterations
  /\ changed' = 0
  /\ i' = TbSize(tb) - 1
  /\ pc' = "sweep"
  /\ UNCHANGED << options, openingBook, variant, fen2index, tb, q, count,
                  depth, todo, iteration, tvars, serial_result, out,
                  file, exit_code, arg, res >>

\* variant of SGenNode that stores the best score also when there is none
SGenNode_nocheck ==
  /\ variant = "serial" /\ pc = "sweep"
  /\ i >= 0
  /\ LET best_score == best_of(tb, tb[i].children, VALUE_NONE)
     IN IF tb[i].score # best_score
        THEN /\ tb' = [tb EXCEPT ![i].score = best_score]
             /\ changed' = changed + 1
        ELSE UNCHANGED << tb, changed >>
  /\ i' = i - 1
  /\ UNCHANGED << options, openingBook, variant, pc, fen2index, q, count,
                  depth, todo, iteration, tvars, serial_result, out,
                  file, exit_code, arg, res >>

\* one turn of the for loop: the best score over the children of node i
SGenNode ==
  /\ variant = "serial" /\ pc = "sweep"
  /\ i >= 0
  /\ LET best_score == best_of(tb, tb[i].children, VALUE_NONE)
     IN IF best_score # VALUE_NONE /\ tb[i].score # best_score
        THEN /\ tb' = [tb EXCEPT ![i].score = best_score]
             /\ changed' = changed + 1
        ELSE UNCHANGED << tb, changed >>
  /\ i' = i - 1
  /\ UNCHANGED << options, openingBook, variant, pc, fen2index, q, count,
                  depth, todo, iteration, tvars, serial_result, out,
                  file, exit_code, arg, res >>

\* the for loop is over: iteration++
SGenPassEnd ==
  /\ variant = "serial" /\ pc = "sweep"
  /\ i < 0
  /\ iteration' = iteration + 1
  /\ pc' = "generate"
  /\ UNCHANGED << options, openingBook, variant, fen2index, tb, q, count,
                  depth, todo, i, changed, tvars, serial_result, out, file,
                  exit_code, arg, res >>

\* while (changed) ends
SGenExit ==
  /\ variant = "serial" /\ pc = "generate"
  /\ changed = 0
  /\ pc' = "done"
  /\ UNCHANGED << options, openingBook, variant, fen2index, tb, q, count,
                  depth, todo, i, changed, iteration, tvars, serial_result, out,
                  file, exit_code, arg, res >>

(***************************************************************************)
(* matetb_threaded.cpp: the thread pool.  A task is a batch lo..hi with    *)
(* the position k of its loop; the pool starts the tasks in the order in   *)
(* which they were enqueued and runs at most `concurrency` of them at a    *)
(* time.                                                                   *)
(***************************************************************************)
Task(lo, hi, k) ==
  [st |-> "queued", lo |-> lo, hi |-> hi, k |-> k, stage |-> "loop",
   ci |-> 1, best |-> VALUE_NONE, batch_changed |-> 0,
   loc_next |-> << >>, loc_mate |-> << >>]

Running == {t \in 1..Len(tasks) : tasks[t].st = "running"}
\* variant of AllDone that is content with one task that has ended
AllDone_one == \E t \in 1..Len(tasks) : tasks[t].st = "done"
AllDone == \A t \in 1..Len(tasks) : tasks[t].st = "done"

\* a worker takes the oldest task that has not started
TStart(t) ==
  /\ variant = "threaded"
  /\ tasks[t].st = "queued"
  /\ \A s \in 1..(t - 1) : tasks[s].st # "queued"
  /\ Cardinality(Running) < options.concurrency
  /\ tasks' = [tasks EXCEPT ![t].st = "running"]
  /\ UNCHANGED << options, openingBook, variant, pc, fen2index, tb, q, count,
                  depth, todo, i, changed, iteration, current_level,
                  next_level, mate_score, serial_result, out, file,
                  exit_code, arg, res >>

(***************************************************************************)
(* matetb_threaded.cpp: initialize_tb.                                     *)
(***************************************************************************)
InitBatchSize(size, concurrency) ==
  Max2(MinBatch, size \div (concurrency * 8))

\* for (i = 0; i < size; i += batch_size): the batch [i, min(i + bs, size))
InitBatches(size, bs) ==
  [n \in 1..((size + bs - 1) \div bs) |->
     Task((n - 1) * bs + 1, Min2(n * bs, size), (n - 1) * bs + 1)]

\* variant of LevelLoop that stops one level early
LevelLoop_strict == current_level # << >> /\ depth < options.max_depth

\* for (; !current_level.empty() && depth <= max_depth; depth++)
LevelLoop == current_level # << >> /\ depth <= options.max_depth

\* the head of the for loop over the levels: a pool and one task per batch
TInitSpawn ==
  /\ variant = "threaded" /\ pc = "init"
  /\ tasks = << >>
  /\ LevelLoop
  /\ tasks' = InitBatches(Len(current_level),
                          InitBatchSize(Len(current_level),
                                        options.concurrency))
  /\ next_level' = << >>
  /\ UNCHANGED << options, openingBook, variant, pc, fen2index, tb, q, count,
                  depth, todo, i, changed, iteration, current_level,
                  mate_score, serial_result, out, file,
                  exit_code, arg, res >>

\* variant of TInitItem that expands a position that is a key already
TInitItem_expand(t) ==
  /\ variant = "threaded" /\ pc = "init"
  /\ tasks[t].st = "running"
  /\ tasks[t].stage = "loop"
  /\ tasks[t].k <= tasks[t].hi
  /\ LET pfen == current_level[tasks[t].k]
         is_new_entry == pfen \notin DOMAIN fen2index
         score == mate_or_zero(Decode(pfen))
         succ == spawn_allowed_children(options.filter, options.mating_side,
                                        openingBook, pfen)
     IN /\ tasks' = [tasks EXCEPT
             ![t].k = @ + 1,
             ![t].loc_mate = IF score # 0 /\ is_new_entry
                             THEN Append(@, <<pfen, score>>) ELSE @,
             ![t].loc_next = IF score # 0 THEN @ ELSE @ \o succ]
        /\ IF is_new_entry
           THEN /\ fen2index' = emplace(fen2index, pfen, count)
                /\ count' = count + 1
           ELSE UNCHANGED << fen2index, count >>
  /\ UNCHANGED << options, openingBook, variant, pc, tb, q, depth, todo, i,
                  changed, iteration, current_level, next_level, mate_score,
                  serial_result, out, file, exit_code, arg, res >>

\* std::map::operator[] without the count() before it: a missing key is
\* inserted with an empty move
lookup_inserting(book, fen) ==
  IF book = EmptyBook THEN book
  ELSE [f \in DOMAIN book \cup {fen} |->
          IF f \in DOMAIN book THEN book[f] ELSE ""]

\* variant of TInitItem whose book lookup inserts the key it does not find
TInitItem_lookup(t) ==
  /\ variant = "threaded" /\ pc = "init"
  /\ tasks[t].st = "running"
  /\ tasks[t].stage = "loop"
  /\ tasks[t].k <= tasks[t].hi
  /\ LET pfen == current_level[tasks[t].k]
         is_new_entry == pfen \notin DOMAIN fen2index
         score == mate_or_zero(Decode(pfen))
         succ == spawn_allowed_children(options.filter, options.mating_side,
                                        openingBook, pfen)
     IN IF is_new_entry
        THEN /\ fen2index' = emplace(fen2index, pfen, count)
             /\ count' = count + 1
             /\ openingBook' = lookup_inserting(openingBook,
                                                getFen(Decode(pfen)))
             /\ tasks' = [tasks EXCEPT
                  ![t].k = @ + 1,
                  ![t].loc_mate = IF score # 0
                                  THEN Append(@, <<pfen, score>>) ELSE @,
                  ![t].loc_next = IF score # 0 THEN @ ELSE @ \o succ]
        ELSE /\ tasks' = [tasks EXCEPT ![t].k = @ + 1]
             /\ UNCHANGED << fen2index, count, openingBook >>
  /\ UNCHANGED << options, variant, pc, tb, q, depth, todo, i,
                  changed, iteration, current_level, next_level, mate_score,
                  serial_result, out, file,
                  exit_code, arg, res >>

\* one position of the batch: lazy_emplace_l, then spawn_allowed_children
\* of a new entry
TInitItem(t) ==
  /\ variant = "threaded" /\ pc = "init"
  /\ tasks[t].st = "running"
  /\ tasks[t].stage = "loop"
  /\ tasks[t].k <= tasks[t].hi
  /\ LET pfen == current_level[tasks[t].k]
         is_new_entry == pfen \notin DOMAIN fen2index
         score == mate_or_zero(Decode(pfen))
         succ == spawn_allowed_children(options.filter, options.mating_side,
                                        openingBook, pfen)
     IN IF is_new_entry
        THEN /\ fen2index' = emplace(fen2index, pfen, count)
             /\ count' = count + 1
             /\ tasks' = [tasks EXCEPT
                  ![t].k = @ + 1,
                  ![t].loc_mate = IF score # 0
                                  THEN Append(@, <<pfen, score>>) ELSE @,
                  ![t].loc_next = IF score # 0 THEN @ ELSE @ \o succ]
        ELSE /\ tasks' = [tasks EXCEPT ![t].k = @ + 1]
             /\ UNCHANGED << fen2index, count >>
  /\ UNCHANGED << options, openingBook, variant, pc, tb, q, depth, todo, i,
                  changed, iteration, current_level, next_level, mate_score,
                  serial_result, out, file,
                  exit_code, arg, res >>

\* the batch is done: append the local mates under mate_score_mutex
TInitFlushMate(t) ==
  /\ variant = "threaded" /\ pc = "init"
  /\ tasks[t].st = "running"
  /\ tasks[t].stage = "loop"
  /\ tasks[t].k > tasks[t].hi
  /\ mate_score' = mate_score \o tasks[t].loc_mate
  /\ tasks' = [tasks EXCEPT ![t].stage = "next"]
  /\ UNCHANGED << options, openingBook, variant, pc, fen2index, tb, q, count,
                  depth, todo, i, changed, iteration, current_level,
                  next_level, serial_result, out, file,
                  exit_code, arg, res >>

\* append the local successors under next_level_mutex; the task ends
TInitFlushNext(t) ==
  /\ variant = "threaded" /\ pc = "init"
  /\ tasks[t].st = "running"
  /\ tasks[t].stage = "next"
  /\ next_level' = next_level \o tasks[t].loc_next
  /\ tasks' = [tasks EXCEPT ![t].st = "done"]
  /\ UNCHANGED << options, openingBook, variant, pc, fen2index, tb, q, count,
                  depth, todo, i, changed, iteration, current_level,
                  mate_score, serial_result, out, file,
                  exit_code, arg, res >>

\* pool.wait() returns: current_level = std::move(next_level); depth++
TInitWait ==
  /\ variant = "threaded" /\ pc = "init"
  /\ tasks # << >>
  /\ AllDone
  /\ current_level' = next_level
  /\ next_level' = << >>
  /\ depth' = depth + 1
  /\ tasks' = << >>
  /\ UNCHANGED << options, openingBook, variant, pc, fen2index, tb, q, count,
                  todo, i, changed, iteration, mate_score, serial_result, out,
                  file, exit_code, arg, res >>

\* tb.assign(count, {0, {}}) and the mate scores
RECURSIVE seed(_, _, _)
seed(table, map, mates) ==
  IF mates = << >> THEN table
  ELSE seed([table EXCEPT ![map[Head(mates)[1]]].score = Head(mates)[2]],
            map, Tail(mates))

\* variant of assign with one node more than the counter says
assign_more(n) == [x \in 0..n |-> [score |-> 0, children |-> << >>]]
assign(n) == [x \in 0..(n - 1) |-> [score |-> 0, children |-> << >>]]

\* the loop over the levels has ended: seed the table
TInitSeed ==
  /\ variant = "threaded" /\ pc = "init"
  /\ tasks = << >>
  /\ ~LevelLoop
  /\ tb' = seed(assign(count), fen2index, mate_score)
  /\ pc' = "connect"
  /\ todo' \in IterOrders(fen2index)
  /\ UNCHANGED << options, openingBook, variant, fen2index, q, count, depth,
                  i, changed, iteration, current_level, next_level,
                  mate_score, tasks, serial_result, out, file,
                  exit_code, arg, res >>

(***************************************************************************)
(* matetb_threaded.cpp: connect_children.  One task per entry.             *)
(***************************************************************************)
\* variant of TConnectSpawn in which every task gets the first entry
TConnectSpawn_same ==
  /\ variant = "threaded" /\ pc = "connect"
  /\ tasks = << >>
  /\ todo # << >>
  /\ tasks' = [n \in 1..Len(todo) |-> Task(1, 1, 1)]
  /\ UNCHANGED << options, openingBook, variant, pc, fen2index, tb, q, count,
                  depth, todo, i, changed, iteration, current_level,
                  next_level, mate_score, serial_result, out, file,
                  exit_code, arg, res >>

TConnectSpawn ==
  /\ variant = "threaded" /\ pc = "connect"
  /\ tasks = << >>
  /\ todo # << >>
  /\ tasks' = [n \in 1..Len(todo) |-> Task(n, n, n)]
  /\ UNCHANGED << options, openingBook, variant, pc, fen2index, tb, q, count,
                  depth, todo, i, changed, iteration, current_level,
                  next_level, mate_score, serial_result, out, file,
                  exit_code, arg, res >>

TConnectTask(t) ==
  /\ variant = "threaded" /\ pc = "connect"
  /\ tasks[t].st = "running"
  /\ tb' = connect_entry(fen2index, tb, todo[tasks[t].k])
  /\ tasks' = [tasks EXCEPT ![t].st = "done"]
  /\ UNCHANGED << options, openingBook, variant, pc, fen2index, q, count,
                  depth, todo, i, changed, iteration, current_level,
                  next_level, mate_score, serial_result, out, file,
                  exit_code, arg, res >>

\* pool.wait() returns; generate_tb starts with changed = 1
TConnectWait ==
  /\ variant = "threaded" /\ pc = "connect"
  /\ tasks # << >>
  /\ AllDone
  /\ pc' = "generate"
  /\ tasks' = << >>
  /\ todo' = << >>
  /\ iteration' = 0
  /\ changed' = 1
  /\ UNCHANGED << options, openingBook, variant, fen2index, tb, q, count,
                  depth, i, current_level, next_level, mate_score,
                  serial_result, out, file,
                  exit_code, arg, res >>

(***************************************************************************)
(* matetb_threaded.cpp: generate_tb.  The reads of the scores of the       *)
(* children and the write of the score of a node are separate steps, so    *)
(* that a task may read a score before or after another task writes it.    *)
(***************************************************************************)
GenBatchSize(size, concurrency) ==
  Max2(MinBatch, size \div (concurrency * 32))

\* variant of GenBatches without the last batch when it is not a full one
GenBatches_full(size, bs) ==
  [n \in 1..(size \div bs) |->
     LET top == size - 1 - (n - 1) * bs
     IN Task(Max2(0, top - bs + 1), top + 1, top)]

\* for (i = size - 1; i >= 0; i -= batch_size):
\* the batch [max(0, i - bs + 1), i + 1), walked downwards from i
GenBatches(size, bs) ==
  [n \in 1..((size + bs - 1) \div bs) |->
     LET top == size - 1 - (n - 1) * bs
     IN Task(Max2(0, top - bs + 1), top + 1, top)]

\* while (changed) { changed = 0; a pool and one task per batch
TGenWhile ==
  /\ variant = "threaded" /\ pc = "generate"
  /\ changed # 0
  /\ iteration < MaxIterations
  /\ changed' = 0
  /\ tasks' = GenBatches(TbSize(tb),
                         GenBatchSize(TbSize(tb), options.concurrency))
  /\ pc' = "sweep"
  /\ UNCHANGED << options, openingBook, variant, fen2index, tb, q, count,
                  depth, todo, i, iteration, current_level, next_level,
                  mate_score, serial_result, out, file,
                  exit_code, arg, res >>

\* score_t score = tb[child].first for a child of node j that is not the
\* last one
TGenRead(t) ==
  /\ variant = "threaded" /\ pc = "sweep"
  /\ tasks[t].st = "running"
  /\ tasks[t].k >= tasks[t].lo
  /\ tasks[t].ci < Len(tb[tasks[t].k].children)
  /\ LET child == tb[tasks[t].k].children[tasks[t].ci]
     IN tasks' = [tasks EXCEPT
          ![t].ci = @ + 1,
          ![t].best = better(@, propagate(tb[child].score))]
  /\ UNCHANGED << options, openingBook, variant, pc, fen2index, tb, q, count,
                  depth, todo, i, changed, iteration, current_level,
                  next_level, mate_score, serial_result, out, file,
                  exit_code, arg, res >>

\* the read of the last child of node j (if it has children) and the store
\* of the best score if it differs.  The two are one step: only this task
\* writes tb[j] in this pass, and a task that reads tb[j] between them sees
\* what it sees just before them.
TGenWrite(t) ==
  /\ variant = "threaded" /\ pc = "sweep"
  /\ tasks[t].st = "running"
  /\ tasks[t].k >= tasks[t].lo
  /\ tasks[t].ci >= Len(tb[tasks[t].k].children)
  /\ LET j == tasks[t].k
         ch == tb[j].children
         best_score == IF ch = << >> THEN tasks[t].best
                       ELSE better(tasks[t].best,
                                   propagate(tb[ch[Len(ch)]].score))
         write == best_score # VALUE_NONE /\ tb[j].score # best_score
     IN /\ tb' = IF write THEN [tb EXCEPT ![j].score = best_score] ELSE tb
        /\ tasks' = [tasks EXCEPT
             ![t].k = @ - 1, ![t].ci = 1, ![t].best = VALUE_NONE,
             ![t].batch_changed = IF write THEN @ + 1 ELSE @]
  /\ UNCHANGED << options, openingBook, variant, pc, fen2index, q, count,
                  depth, todo, i, changed, iteration, current_level,
                  next_level, mate_score, serial_result, out, file,
                  exit_code, arg, res >>

\* variant of TGenAdd that stores the count of the batch instead of
\* adding it
TGenAdd_store(t) ==
  /\ variant = "threaded" /\ pc = "sweep"
  /\ tasks[t].st = "running"
  /\ tasks[t].k < tasks[t].lo
  /\ changed' = tasks[t].batch_changed
  /\ tasks' = [tasks EXCEPT ![t].st = "done"]
  /\ UNCHANGED << options, openingBook, variant, pc, fen2index, tb, q, count,
                  depth, todo, i, iteration, current_level, next_level,
                  mate_score, serial_result, out, file,
                  exit_code, arg, res >>

\* changed += batch_changed; the task ends
TGenAdd(t) ==
  /\ variant = "threaded" /\ pc = "sweep"
  /\ tasks[t].st = "running"
  /\ tasks[t].k < tasks[t].lo
  /\ changed' = changed + tasks[t].batch_changed
  /\ tasks' = [tasks EXCEPT ![t].st = "done"]
  /\ UNCHANGED << options, openingBook, variant, pc, fen2index, tb, q, count,
                  depth, todo, i, iteration, current_level, next_level,
                  mate_score, serial_result, out, file,
                  exit_code, arg, res >>

\* pool.wait() returns: iteration++
TGenWait ==
  /\ variant = "threaded" /\ pc = "sweep"
  /\ AllDone
  /\ iteration' = iteration + 1
  /\ pc' = "generate"
  /\ tasks' = << >>
  /\ UNCHANGED << options, openingBook, variant, fen2index, tb, q, count,
                  depth, todo, i, changed, current_level, next_level,
                  mate_score, serial_result, out, file,
                  exit_code, arg, res >>

\* while (changed) ends
TGenExit ==
  /\ variant = "threaded" /\ pc = "generate"
  /\ changed = 0
  /\ pc' = "done"
  /\ UNCHANGED << options, openingBook, variant, fen2index, tb, q, count,
                  depth, todo, i, changed, iteration, current_level,
                  next_level, mate_score, tasks, serial_result, out, file,
                  exit_code, arg, res >>

(***************************************************************************)
(* output(), the same code in both programs.  An entry of the list is the  *)
(* score of a root move and its line.                                      *)
(***************************************************************************)
\* the list sp before it is sorted: one entry per legal root move
output_list(map, table, mating_side, root_pos) ==
  LET board == [pos |-> root_pos, hmc |-> 0]
      ms == legalmoves(board)
  IN [k \in 1..Len(ms) |->
        LET score == move_score(map, table, board, ms[k])
            pv == IF score # VALUE_NONE /\ score # 0
                  THEN obtain_pv(map, table, mating_side,
                                 makeMove(board, ms[k]), MaxPv)
                  ELSE << >>
        IN [score |-> score, pv |-> << moveToUci(ms[k]) >> \o pv]]

\* the comparison of std::sort in output: a goes before b
sp_before(a, b) ==
  IF a = VALUE_NONE THEN FALSE ELSE IF b = VALUE_NONE THEN TRUE ELSE a > b

\* variant of sorted_lists that leaves the list as it was built
sorted_lists_asis(sp) == { sp }

\* std::sort: the orders of sp in which no entry goes before an earlier
\* one (the order of entries that compare equal is not specified)
sorted_lists(sp) ==
  LET n == Len(sp)
      perms == { [k \in 1..n |-> sp[f[k]]] : f \in Permutations(1..n) }
  IN { s \in perms :
         \A a, b \in 1..n : a < b => ~sp_before(s[b].score, s[a].score) }

\* what output prints for the sorted list sp
report(sp) ==
  LET score == sp[1].score
  IN IF score # VALUE_NONE /\ score # 0
     THEN [line |-> "matetrack", mate |-> score2mate(score),
           pv |-> sp[1].pv, sp |-> sp]
     ELSE [line |-> "nomate", mate |-> 0, pv |-> sp[1].pv, sp |-> sp]

\* sp[0] of an empty list is read without a test: the read may end the
\* process, or yield a score that leads to either of the two lines
report_of_missing_entry ==
  { [line |-> l, mate |-> VALUE_NONE, pv |-> << >>, sp |-> << >>] :
      l \in {"crash", "nomate", "matetrack"} }

Output ==
  /\ pc = "done"
  /\ out = NoOut
  /\ file = NoFile
  /\ exit_code = "none"
  /\ LET sp == output_list(fen2index, tb, options.mating_side, options.root)
     IN IF sp = << >>
        THEN out' \in report_of_missing_entry
        ELSE \E sorted \in sorted_lists(sp) : out' = report(sorted)
  /\ exit_code' = IF out'.line = "crash" THEN "crash" ELSE "none"
  /\ UNCHANGED << options, openingBook, variant, pc, fen2index, tb, q, count,
                  depth, todo, i, changed, iteration, tvars, serial_result,
                  file, arg, res >>

\* variant of file_line that writes the annotation on every line
file_line_annotated(table, pfen, idx) ==
  [fen |-> getFen(Decode(pfen)),
   bmstr |-> << score2mate(table[idx].score) >>]

\* one line of write_tb: the FEN, and the mate distance if there is one
file_line(table, pfen, idx) ==
  LET s == table[idx].score
  IN [fen |-> getFen(Decode(pfen)),
      bmstr |-> IF s = VALUE_NONE \/ s = 0 THEN << >>
                ELSE << score2mate(s) >>]

\* main: write_tb, if --outFile is given
WriteTb ==
  /\ pc = "done"
  /\ out # NoOut /\ exit_code = "none"
  /\ ~file.written
  /\ \E order \in IterOrders(fen2index) :
       file' = [written |-> TRUE,
                lines |-> [k \in 1..Len(order) |->
                             file_line(tb, order[k], fen2index[order[k]])]]
  /\ UNCHANGED << options, openingBook, variant, pc, fen2index, tb, q, count,
                  depth, todo, i, changed, iteration, tvars, serial_result,
                  out, exit_code, arg, res >>

\* variant of Return with the exit code of a fatal input error
Return_failure ==
  /\ pc = "done"
  /\ out # NoOut /\ exit_code = "none"
  /\ exit_code' = "1"
  /\ UNCHANGED << options, openingBook, variant, pc, fen2index, tb, q, count,
                  depth, todo, i, changed, iteration, tvars, serial_result,
                  out, file, arg, res >>

\* main: return 0
Return ==
  /\ pc = "done"
  /\ out # NoOut /\ exit_code = "none"
  /\ exit_code' = "0"
  /\ UNCHANGED << options, openingBook, variant, pc, fen2index, tb, q, count,
                  depth, todo, i, changed, iteration, tvars, serial_result,
                  out, file, arg, res >>

(***************************************************************************)
(* The serial program has ended: the threaded program is run on the same   *)
(* options.                                                                *)
(***************************************************************************)
Result == {<<p, tb[fen2index[p]].score>> : p \in DOMAIN fen2index}

RunThreaded ==
  /\ variant = "serial" /\ pc = "done"
  /\ exit_code # "none"
  /\ out' = NoOut
  /\ file' = NoFile
  /\ exit_code' = "none"
  /\ serial_result' = Result
  /\ variant' = "threaded"
  /\ pc' = "init"
  /\ fen2index' = EmptyMap
  /\ tb' = EmptyTb
  /\ q' = << >>
  /\ count' = 0
  /\ depth' = 0
  /\ todo' = << >>
  /\ i' = 0
  /\ changed' = 1
  /\ iteration' = 0
  /\ current_level' = << Encode([pos |-> options.root, hmc |-> 0]) >>
  /\ next_level' = << >>
  /\ mate_score' = << >>
  /\ tasks' = << >>
  /\ UNCHANGED << options, openingBook, arg, res >>

Next ==
  \/ SInitEnd
  \/ SInitSkip
  \/ SInitInsert
  \/ SConnectStep
  \/ SConnectEnd
  \/ SGenWhile
  \/ SGenNode
  \/ SGenPassEnd
  \/ SGenExit
  \/ Output
  \/ WriteTb
  \/ Return
  \/ RunThreaded
  \/ \E t \in 1..Len(tasks) : TStart(t)
  \/ TInitSpawn
  \/ \E t \in 1..Len(tasks) : TInitItem(t)
  \/ \E t \in 1..Len(tasks) : TInitFlushMate(t)
  \/ \E t \in 1..Len(tasks) : TInitFlushNext(t)
  \/ TInitWait
  \/ TInitSeed
  \/ TConnectSpawn
  \/ \E t \in 1..Len(tasks) : TConnectTask(t)
  \/ TConnectWait
  \/ TGenWhile
  \/ \E t \in 1..Len(tasks) : TGenRead(t)
  \/ \E t \in 1..Len(tasks) : TGenWrite(t)
  \/ \E t \in 1..Len(tasks) : TGenAdd(t)
  \/ TGenWait
  \/ TGenExit

Spec == Init /\ [][Next]_vars

\* every step that can be taken is taken until the table is generated:
\* the serial program runs, and the pool runs its tasks
FairSpec == Init /\ [][Next]_vars /\ WF_vars(pc # "done" /\ Next)

(***************************************************************************)
(* The functions on scores, run on their own: score2mate and the score of  *)
(* a child seen from its parent, on every score from -MATE to MATE, on     *)
(* the scores that encode a mate distance, and on the scores met when one  *)
(* goes back ply by ply from a checkmate.                                  *)
(***************************************************************************)
\* no program runs
Idle ==
  /\ options = Option("A", 0, "w", NoFilter, 1, << >>)
  /\ openingBook = EmptyBook
  /\ variant = "serial"
  /\ pc = "idle"
  /\ fen2index = EmptyMap
  /\ tb = EmptyTb
  /\ q = << >>
  /\ count = 0
  /\ depth = 0
  /\ todo = << >>
  /\ i = 0
  /\ changed = 0
  /\ iteration = 0
  /\ current_level = << >>
  /\ next_level = << >>
  /\ mate_score = << >>
  /\ tasks = << >>
  /\ serial_result = {}
  /\ out = NoOut
  /\ file = NoFile
  /\ exit_code = "none"

pvars == << options, openingBook, variant, pc, fen2index, tb, q, count, depth,
            todo, i, changed, iteration, current_level, next_level,
            mate_score, tasks, serial_result, out, file, exit_code >>

\* the scores and the mate distances that are tried: those within
\* ScoreWindow of the ends of their range and of the score 0
Scores ==
  ((-VALUE_MATE)..(-VALUE_MATE + ScoreWindow))
    \cup ((-ScoreWindow)..ScoreWindow)
    \cup ((VALUE_MATE - ScoreWindow)..VALUE_MATE)
MateDistances ==
  (1..ScoreWindow)
    \cup (((VALUE_MATE \div 2) - ScoreWindow)..(VALUE_MATE \div 2))
MaxPlies == VALUE_MATE + 1

ScoreInit ==
  /\ Idle
  /\ res = [done |-> FALSE]
  /\ arg \in { [fn |-> "score2mate", s |-> s] : s \in Scores }
          \cup { [fn |-> "distance", k |-> k] : k \in MateDistances }
          \cup { [fn |-> "propagate", s |-> s] : s \in Scores }
          \cup { [fn |-> "plies", d |-> 0, s |-> -VALUE_MATE] }

\* score2mate of a score
ApplyScore2mate ==
  /\ arg.fn = "score2mate" /\ ~res.done
  /\ res' = [done |-> TRUE, mate |-> score2mate(arg.s)]
  /\ UNCHANGED << pvars, arg >>

\* score2mate of the two scores that encode the mate distance k: the
\* side to move mates in k moves, or is mated in k moves
ApplyScore2mateToDistance ==
  /\ arg.fn = "distance" /\ ~res.done
  /\ res' = [done |-> TRUE,
             win |-> score2mate(VALUE_MATE - (2 * arg.k - 1)),
             loss |-> score2mate(-VALUE_MATE + 2 * arg.k)]
  /\ UNCHANGED << pvars, arg >>

\* the score of a child seen from its parent, and from the parent of that
ApplyPropagate ==
  /\ arg.fn = "propagate" /\ ~res.done
  /\ res' = [done |-> TRUE, once |-> propagate(arg.s),
             twice |-> propagate(propagate(arg.s))]
  /\ UNCHANGED << pvars, arg >>

\* one more ply back from the checkmate, and score2mate of that score
ApplyPropagateToPly ==
  /\ arg.fn = "plies" /\ arg.d < MaxPlies
  /\ arg' = [arg EXCEPT !.d = @ + 1, !.s = propagate(@)]
  /\ res' = [done |-> TRUE, mate |-> score2mate(propagate(arg.s))]
  /\ UNCHANGED pvars

ScoreNext ==
  \/ ApplyScore2mate
  \/ ApplyScore2mateToDistance
  \/ ApplyPropagate
  \/ ApplyPropagateToPly

ScoreSpec == ScoreInit /\ [][ScoreNext]_vars

(***************************************************************************)
(* Vocabulary of the properties.                                           *)
(***************************************************************************)
AfterInit == pc \in {"connect", "generate", "sweep", "done"}
AfterConnect == pc \in {"generate", "sweep", "done"}
InGenerate == pc \in {"generate", "sweep"}
Ids == DOMAIN tb
Keys == DOMAIN fen2index
KeyOf(id) == CHOOSE p \in Keys : fen2index[p] = id
ScoreOf(p) == tb[fen2index[p]].score
IsCheckmate(p) == Universe[p].moves = << >> /\ Universe[p].inCheck
IsStalemate(p) == Universe[p].moves = << >> /\ ~Universe[p].inCheck
Successors(p) == {Universe[p].moves[k].next : k \in 1..Len(Universe[p].moves)}
ChildSet(id) == {tb[id].children[k] : k \in 1..Len(tb[id].children)}
Sgn(x) == IF x > 0 THEN 1 ELSE IF x < 0 THEN -1 ELSE 0
\* the relation between the score of a successor and that of its parent
Law(x) == IF x = 0 THEN 0 ELSE -x + Sgn(x)
SetMax(S) == CHOOSE x \in S : \A y \in S : y <= x

(***************************************************************************)
(* C1.  When generate_tb returns, the score of every position in the table *)
(* is its minimax value by backward induction on the explored graph:       *)
(* -MATE for a checkmate, MATE - d when the side to move can force mate in *)
(* exactly d plies (and in no fewer), -MATE + d when it is mated in d      *)
(* plies at best, and 0 when neither side can force mate.                  *)
(***************************************************************************)
\* the positions decided within d plies, each with its number of plies
RECURSIVE Decided(_)
Decided(d) ==
  IF d = 0
  THEN [n \in {m \in Ids : IsCheckmate(KeyOf(m))} |-> 0]
  ELSE LET prev == Decided(d - 1)
           old == DOMAIN prev
           won == {n \in Ids \ old :
                     \E c \in ChildSet(n) : c \in old /\ prev[c] % 2 = 0}
           lost == {n \in Ids \ old :
                      /\ ChildSet(n) # {}
                      /\ \A c \in ChildSet(n) : c \in old /\ prev[c] % 2 = 1}
           new == IF d % 2 = 1 THEN won ELSE lost
       IN [n \in old \cup new |-> IF n \in old THEN prev[n] ELSE d]

MinimaxScore(all, n) ==
  IF n \notin DOMAIN all THEN 0
  ELSE IF all[n] % 2 = 1 THEN VALUE_MATE - all[n]
  ELSE -VALUE_MATE + all[n]

C1_ScoresAreMinimax ==
  pc = "done" =>
    LET all == Decided(TbSize(tb) + 1)
    IN \A n \in Ids : tb[n].score = MinimaxScore(all, n)

\* the threaded program has ended with a mate in 3 plies or more, a lost
\* position and an undecided one in the table
C1_Witness ==
  /\ pc = "done" /\ variant = "threaded" /\ options.concurrency > 1
  /\ \E n \in Ids : tb[n].score > 0 /\ tb[n].score <= VALUE_MATE - 3
  /\ \E n \in Ids : tb[n].score < 0 /\ tb[n].score > -VALUE_MATE
  /\ \E n \in Ids : tb[n].score = 0 /\ tb[n].children # << >>

(***************************************************************************)
(* C2.  After generate_tb every position in which the non-mating side is   *)
(* to move and whose score is negative has all its legal successors in the *)
(* table, each with a positive score.                                      *)
(***************************************************************************)
C2_LossHasAllReplies ==
  pc = "done" =>
    \A p \in Keys :
      (Universe[p].stm # options.mating_side /\ ScoreOf(p) < 0) =>
        \A s \in Successors(p) : s \in Keys /\ ScoreOf(s) > 0

(***************************************************************************)
(* C3.  After initialize_tb the keys of the table are exactly the          *)
(* positions at most max_depth candidate moves away from the root.         *)
(***************************************************************************)
Candidates(p) ==
  LET board == Decode(p)
      ms == legalmoves(board)
      onBook == openingBook # EmptyBook /\ p \in DOMAIN openingBook
  IN IF IsCheckmate(p) THEN {}
     ELSE IF onBook
     THEN {ms[k].next : k \in {x \in 1..Len(ms) :
                                 ms[x].uci = openingBook[p]}}
     ELSE {ms[k].next : k \in {x \in 1..Len(ms) :
             allowed_move(options.filter, options.mating_side, board, ms[x])}}

\* the positions at most d candidate moves away from the positions of S
RECURSIVE Grow(_, _)
Grow(S, d) ==
  IF d = 0 THEN S
  ELSE LET T == S \cup UNION {Candidates(p) : p \in S}
       IN IF T = S THEN S ELSE Grow(T, d - 1)

Within(d) == Grow({options.root}, d)

C3_KeysAreWithinDepth ==
  AfterInit =>
    Keys = Within(Min2(options.max_depth, Cardinality(Positions)))

\* a position first reached at depth max_depth is a key, and a candidate
\* successor of it is not
C3_Witness ==
  /\ AfterInit /\ variant = "threaded"
  /\ options.max_depth \in 1..MaxDepth
  /\ \E p \in Keys :
       /\ p \notin Within(options.max_depth - 1)
       /\ \E s \in Candidates(p) : s \notin Keys

(***************************************************************************)
(* C4.  The table maps the inserted positions one-to-one onto              *)
(* 0 .. |tb| - 1 from the end of initialize_tb on; the keys carry no       *)
(* clocks; ids are never shared, also while the pool inserts.              *)
(***************************************************************************)
C4_Bijection ==
  /\ \A p1, p2 \in Keys : fen2index[p1] = fen2index[p2] => p1 = p2
  /\ {fen2index[p] : p \in Keys} = 0..(count - 1)
  /\ Keys \subseteq Positions
  /\ AfterInit =>
       /\ Cardinality(Keys) = TbSize(tb)
       /\ Ids = 0..(TbSize(tb) - 1)
       /\ {fen2index[p] : p \in Keys} = Ids

\* two tasks of the pool are inserting at the same time, and a position
\* that is reached with different clocks is a key
C4_Witness ==
  /\ variant = "threaded" /\ pc = "init"
  /\ Cardinality({t \in Running : tasks[t].stage = "loop"
                                  /\ tasks[t].k > tasks[t].lo}) >= 2
  /\ "C2" \in Keys

(***************************************************************************)
(* C5.  The threaded program ends with the same set of (position, score)   *)
(* as the serial program on the same options, for every concurrency and    *)
(* every interleaving.                                                     *)
(***************************************************************************)
C5_SameResult ==
  (variant = "threaded" /\ pc = "done") => Result = serial_result

\* the threaded program has ended after several passes of two workers
C5_Witness ==
  /\ variant = "threaded" /\ pc = "done"
  /\ options.concurrency = 2
  /\ iteration >= 3
  /\ Cardinality(Result) >= 8
  /\ \E r \in Result : r[2] > 0
  /\ \E r \in Result : r[2] < 0 /\ r[2] # -VALUE_MATE

(***************************************************************************)
(* C6.  When generate_tb returns, every node with children has the         *)
(* maximum over its children of the propagated score, every node without   *)
(* children has its seeded score, and one more pass changes nothing.       *)
(***************************************************************************)
\* one more pass of the loop of generate_tb over the nodes n, n-1, .., 0
RECURSIVE OnePass(_, _)
OnePass(table, n) ==
  IF n < 0 THEN table
  ELSE LET best_score == best_of(table, table[n].children, VALUE_NONE)
       IN OnePass(IF best_score # VALUE_NONE /\ table[n].score # best_score
                  THEN [table EXCEPT ![n].score = best_score] ELSE table,
                  n - 1)

C6_FixedPoint ==
  pc = "done" =>
    /\ \A n \in Ids :
         IF tb[n].children # << >>
         THEN tb[n].score = SetMax({Law(tb[c].score) : c \in ChildSet(n)})
         ELSE tb[n].score = IF IsCheckmate(KeyOf(n)) THEN -VALUE_MATE ELSE 0
    /\ OnePass(tb, TbSize(tb) - 1) = tb

\* the threaded program has ended, with a node whose children differ in
\* their scores
C6_Witness ==
  /\ pc = "done" /\ variant = "threaded"
  /\ \E n \in Ids : \E c1, c2 \in ChildSet(n) :
       /\ tb[c1].score > 0 /\ tb[c2].score < 0
       /\ tb[n].score = Law(tb[c2].score)

(***************************************************************************)
(* C7.  generate_tb terminates, in both programs, for tables whose         *)
(* children graph has cycles.                                              *)
(***************************************************************************)
C7_GenerateTerminates == (pc = "generate") ~> (pc = "done")

\* generate_tb of the threaded program has ended on a table with a cycle
C7_Witness ==
  /\ pc = "done" /\ variant = "threaded"
  /\ \E n, m \in Ids : n # m /\ m \in ChildSet(n) /\ n \in ChildSet(m)
  /\ iteration >= 2

(***************************************************************************)
(* C8.  During generate_tb no write replaces a non-zero score by 0 or      *)
(* changes the sign of a score.                                            *)
(***************************************************************************)
C8_SignIsKept ==
  [][ (InGenerate /\ variant' = variant) =>
        \A n \in Ids : tb[n].score # 0 => Sgn(tb'[n].score) = Sgn(tb[n].score)
    ]_vars

\* the score that task t is about to compare with the score of its node
PendingBest(t) ==
  LET ch == tb[tasks[t].k].children
  IN IF ch = << >> THEN tasks[t].best
     ELSE better(tasks[t].best, propagate(tb[ch[Len(ch)]].score))

\* a pass of the pool is about to overwrite a non-zero score while another
\* task is running
C8_Witness ==
  /\ pc = "sweep" /\ variant = "threaded"
  /\ Cardinality(Running) >= 2
  /\ \E t \in Running :
       /\ tasks[t].k >= tasks[t].lo
       /\ tasks[t].ci >= Len(tb[tasks[t].k].children)
       /\ tb[tasks[t].k].score # 0
       /\ PendingBest(t) \notin {VALUE_NONE, tb[tasks[t].k].score}

(***************************************************************************)
(* C9.  At the end of initialize_tb every score is 0 or -MATE; from then   *)
(* on a node has score -MATE exactly when its position is a checkmate,     *)
(* and such a node has no children.                                        *)
(***************************************************************************)
C9_TerminalEncoding ==
  AfterInit =>
    /\ \A n \in Ids :
         /\ tb[n].score = -VALUE_MATE <=> IsCheckmate(KeyOf(n))
         /\ tb[n].score = -VALUE_MATE => tb[n].children = << >>
    /\ pc = "connect" => \A n \in Ids : tb[n].score \in {0, -VALUE_MATE}

\* generate_tb has ended with a checkmate, a stalemate and a decided
\* position that is no checkmate in the table
C9_Witness ==
  /\ pc = "done"
  /\ \E p \in Keys : IsCheckmate(p)
  /\ \E p \in Keys : IsStalemate(p) /\ ScoreOf(p) = 0
  /\ \E p \in Keys : ~IsCheckmate(p) /\ ScoreOf(p) < 0

(***************************************************************************)
(* C10.  After connect_children the children of every node that is no      *)
(* mate are the ids of its legal successors that are keys, in generation   *)
(* order, each once; a successor reached only by a rejected move is        *)
(* among them when it is a key.                                            *)
(***************************************************************************)
InTable(m) == m.next \in Keys

C10_ChildrenAreLegalSuccessorsInTable ==
  AfterConnect =>
    \A p \in Keys :
      ~IsCheckmate(p) =>
        LET kept == SelectSeq(Universe[p].moves, InTable)
            ch == tb[fen2index[p]].children
        IN /\ ch = [k \in 1..Len(kept) |-> fen2index[kept[k].next]]
           /\ \A k \in 1..Len(ch) : ch[k] < TbSize(tb)
           /\ \A s \in Successors(p) \cap Keys :
                Cardinality({k \in 1..Len(ch) : ch[k] = fen2index[s]}) = 1
           /\ \A k \in 1..Len(ch) : KeyOf(ch[k]) \in Successors(p)

\* a node has a child that no candidate move of it reaches, and a legal
\* successor that is not in the table
C10_Witness ==
  /\ AfterConnect /\ variant = "threaded"
  /\ \E p \in Keys :
       /\ \E c \in ChildSet(fen2index[p]) : KeyOf(c) \notin Candidates(p)
       /\ Len(tb[fen2index[p]].children) >= 2
  /\ \E p \in Keys : \E s \in Successors(p) : s \notin Keys

(***************************************************************************)
(* C11.  output() lists one entry per legal root move, in an order in      *)
(* which scores do not increase and every NONE comes after every other     *)
(* score; it prints the Matetrack line when the score of the first entry   *)
(* is neither 0 nor NONE and "No mate found" in every other case; and for  *)
(* a root that is a key with legal moves and a non-zero score the printed  *)
(* mate distance is score2mate of the score of the root.                   *)
(***************************************************************************)
RootMoves == Universe[options.root].moves

Reported ==
  LET sp == out.sp
      n == Len(sp)
      mate_found == n > 0 /\ sp[1].score # 0 /\ sp[1].score # VALUE_NONE
  IN /\ n = Len(RootMoves)
     /\ { sp[k].pv[1] : k \in 1..n } =
          { RootMoves[k].uci : k \in 1..Len(RootMoves) }
     /\ \A a, b \in 1..n :
          a < b => /\ sp[a].score = VALUE_NONE => sp[b].score = VALUE_NONE
                   /\ sp[b].score # VALUE_NONE => sp[a].score >= sp[b].score
     /\ out.line = IF mate_found THEN "matetrack" ELSE "nomate"
     /\ ( /\ options.root \in Keys
          /\ RootMoves # << >>
          /\ ScoreOf(options.root) # 0 )
        => out.mate = score2mate(probe_tb(fen2index, tb, options.root))

C11_Report == out # NoOut => Reported

(***************************************************************************)
(* C12.  When the best root move has a positive score, with N the printed  *)
(* mate distance, the printed PV has exactly 2N - 1 moves, whatever the    *)
(* number of plies without a capture; obtain_pv returns; every position    *)
(* along the PV is a key whose |score| is one more than that of the        *)
(* position before it; and the last position is a checkmate with score     *)
(* -MATE.                                                                  *)
(***************************************************************************)
\* the boards along a line played from board; a string that is no legal
\* move ends the walk on the board "?"
RECURSIVE Walk(_, _)
Walk(board, line) ==
  IF line = << >> THEN << >>
  ELSE LET m == uciToMove(board, Head(line))
       IN IF m.uci # Head(line) THEN << [pos |-> "?", hmc |-> 0] >>
          ELSE << makeMove(board, m) >> \o Walk(makeMove(board, m), Tail(line))

Abs(x) == IF x < 0 THEN -x ELSE x

PvBoards == Walk([pos |-> options.root, hmc |-> 0], out.pv)

PvIsMate ==
  LET bs == PvBoards
      n == Len(bs)
  IN /\ n = 2 * out.mate - 1
     /\ \A k \in 1..Len(out.pv) : out.pv[k] # "..."
     /\ \A k \in 1..n :
          /\ bs[k].pos \in Keys
          /\ Abs(ScoreOf(bs[k].pos)) =
               1 + (IF k = 1 THEN Abs(ScoreOf(options.root))
                    ELSE Abs(ScoreOf(bs[k - 1].pos)))
     /\ IsCheckmate(bs[n].pos)
     /\ ScoreOf(bs[n].pos) = -VALUE_MATE

BestMoveWins ==
  out.line = "matetrack" /\ out.sp # << >> /\ out.sp[1].score > 0

C12_PvIsMateOfAnyLength == BestMoveWins => PvIsMate

\* C12 as amended: the same, for the lines on which the halfmove clock
\* stays below the limit of the 50-move rule at every position that is
\* not the checkmate; on the other lines the PV ends where the limit is
\* reached.
ClockBelowLimit ==
  \A k \in 1..Len(PvBoards) :
    PvBoards[k].pos \in Positions =>
      (isHalfMoveDraw(PvBoards[k]) => IsCheckmate(PvBoards[k].pos))

C12_PvIsMateBelowClockLimit == (BestMoveWins /\ ClockBelowLimit) => PvIsMate

C12_Witness ==
  /\ BestMoveWins /\ ClockBelowLimit
  /\ out.mate = 3 /\ Len(out.pv) = 5
  /\ variant = "threaded"

(***************************************************************************)
(* C13.  probe_tb returns the stored score of a position that is a key     *)
(* and NONE for any other position; no stored score is NONE in any state   *)
(* of any phase, so probe_tb returns NONE exactly for the positions that   *)
(* are no keys.                                                            *)
(***************************************************************************)
\* every id of the map has its node (not so while the threaded
\* initialize_tb runs: tb is filled when the enumeration is over)
TableIsBuilt == \A p \in Keys : fen2index[p] \in Ids

C13_ProbeIsNoneIffAbsent ==
  /\ \A id \in Ids : tb[id].score # VALUE_NONE
  /\ TableIsBuilt =>
       \A p \in Positions :
         /\ p \in Keys => probe_tb(fen2index, tb, p) = ScoreOf(p)
         /\ p \notin Keys => probe_tb(fen2index, tb, p) = VALUE_NONE
         /\ probe_tb(fen2index, tb, p) = VALUE_NONE <=> p \notin Keys

\* output has probed a position that is no key and one that is
C13_Witness ==
  /\ out # NoOut
  /\ \E a, b \in 1..Len(out.sp) :
       out.sp[a].score = VALUE_NONE /\ out.sp[b].score # VALUE_NONE
  /\ \E k \in 1..Len(RootMoves) : RootMoves[k].next \notin Keys

(***************************************************************************)
(* C14.  For every score S from -MATE to MATE, score2mate(S) is            *)
(* (MATE - S + 1)/2 for S > 0, -(MATE + S)/2 for S < 0 and NONE for S = 0, *)
(* the 16-bit result being the exact value; for every k from 1 to MATE/2,  *)
(* score2mate(MATE - (2k-1)) = k and score2mate(-MATE + 2k) = -k; and the  *)
(* score d plies back from a checkmate, d up to MATE, gives (d+1)/2 for    *)
(* odd d and -d/2 for even d.                                              *)
(***************************************************************************)
MateOf(s) ==
  IF s > 0 THEN (VALUE_MATE - s + 1) \div 2
  ELSE IF s < 0 THEN -((VALUE_MATE + s) \div 2)
  ELSE VALUE_NONE

MateOfPlies(d) == IF d % 2 = 1 THEN (d + 1) \div 2 ELSE -(d \div 2)

Score2mateIsExact ==
  (arg.fn = "score2mate" /\ res.done) => res.mate = MateOf(arg.s)

C14_Score2mateInvertsTheEncoding ==
  /\ Score2mateIsExact
  /\ (arg.fn = "distance" /\ res.done) =>
       (res.win = arg.k /\ res.loss = -arg.k)
  /\ (arg.fn = "plies" /\ res.done /\ arg.d <= VALUE_MATE) =>
       res.mate = MateOfPlies(arg.d)

\* C14 as amended: the same, but score2mate(-MATE + 2k) = -k only for k
\* below MATE/2, and the plies only for d below MATE: -MATE + 2k is 0 for
\* k = MATE/2, and so is the score MATE plies back from a checkmate;
\* score2mate gives NONE for it.
C14_Score2mateInvertsBelowTheDraw ==
  /\ Score2mateIsExact
  /\ (arg.fn = "distance" /\ res.done) =>
       /\ res.win = arg.k
       /\ arg.k < VALUE_MATE \div 2 => res.loss = -arg.k
       /\ arg.k = VALUE_MATE \div 2 => res.loss = VALUE_NONE
  /\ (arg.fn = "plies" /\ res.done /\ arg.d < VALUE_MATE) =>
       res.mate = MateOfPlies(arg.d)
  /\ (arg.fn = "plies" /\ res.done /\ arg.d >= VALUE_MATE) =>
       res.mate = VALUE_NONE

C14_Witness ==
  /\ arg.fn = "distance" /\ res.done
  /\ arg.k = VALUE_MATE \div 2
  /\ res.win = arg.k

(***************************************************************************)
(* C15.  For every non-zero score S from -MATE to MATE, the score seen     *)
(* from the parent of the parent is S - 2 sgn(S); and the score 0 is seen  *)
(* as 0.                                                                   *)
(***************************************************************************)
C15_PropagateTwice ==
  (arg.fn = "propagate" /\ res.done) =>
     /\ arg.s # 0 => res.twice = arg.s - 2 * Sgn(arg.s)
     /\ arg.s = 0 => res.once = 0

\* C15 as amended: the same for |S| >= 2; a score of 1 or -1 is seen as 0
\* from the parent, and 0 stays 0.
C15_PropagateTwiceFromTwoOn ==
  (arg.fn = "propagate" /\ res.done) =>
     /\ Abs(arg.s) >= 2 => res.twice = arg.s - 2 * Sgn(arg.s)
     /\ Abs(arg.s) = 1 => (res.once = 0 /\ res.twice = 0)
     /\ arg.s = 0 => res.once = 0

C15_Witness ==
  /\ arg.fn = "propagate" /\ res.done
  /\ arg.s = -VALUE_MATE
  /\ res.once = VALUE_MATE - 1
  /\ res.twice = -VALUE_MATE + 2

(***************************************************************************)
(* C16.  With max_depth = 0, after create_tb (and from connect_children    *)
(* on) the root is the only key, its id is 0, it has no children, and its  *)
(* score is -MATE if the root is a checkmate and 0 if not, in both         *)
(* programs.                                                               *)
(***************************************************************************)
C16_DepthZeroKeepsTheRootOnly ==
  (options.max_depth = 0 /\ AfterConnect) =>
     /\ Keys = {options.root}
     /\ fen2index[options.root] = 0
     /\ Ids = {0}
     /\ tb[0].children = << >>
     /\ tb[0].score = IF IsCheckmate(options.root) THEN -VALUE_MATE ELSE 0

\* both programs have run with max_depth = 0 on a root that is checkmate
C16_Witness ==
  /\ options.max_depth = 0 /\ IsCheckmate(options.root)
  /\ variant = "threaded" /\ pc = "done" /\ out # NoOut
  /\ Keys = {options.root}

(***************************************************************************)
(* allowed_move as a function: one filter configuration, one mating side,  *)
(* one position and one of its legal moves per behaviour.                  *)
(***************************************************************************)
\* the configurations with one option set
OneFilter ==
  { [NoFilter EXCEPT !.excludeMoves = v] : v \in {{"a1a2"}, {"h8g7", "c1c7"}} }
  \cup { [NoFilter EXCEPT !.excludeSANs = v] : v \in {{"Ra3"}, {"g8=Q"}} }
  \cup { [NoFilter EXCEPT !.excludeFrom = v] : v \in {{"a1"}, {"h8"}} }
  \cup { [NoFilter EXCEPT !.excludeTo = v] : v \in {{"a3", "g8"}, {"c2"}} }
  \cup { [NoFilter EXCEPT !.excludeCaptures = TRUE] }
  \cup { [NoFilter EXCEPT !.excludeCapturesOf = v] :
           v \in {{"p"}, {"n", "b"}, {"q"}} }
  \cup { [NoFilter EXCEPT !.excludeToAttacked = TRUE] }
  \cup { [NoFilter EXCEPT !.excludePromotionTo = v] : v \in {{"q"}, {"r"}} }
  \cup { [NoFilter EXCEPT !.excludeToCapturable = TRUE] }
  \cup { [NoFilter EXCEPT !.excludeAllowingCapture = TRUE] }
  \cup { [NoFilter EXCEPT !.excludeAllowingFrom = v] : v \in {{"d1"}, {"h7"}} }
  \cup { [NoFilter EXCEPT !.excludeAllowingTo = v] : v \in {{"e8"}, {"g7"}} }
  \cup { [NoFilter EXCEPT !.excludeAllowingMoves = v] :
           v \in {{"h8g7"}, {"d8e7"}} }
  \cup { [NoFilter EXCEPT !.excludeAllowingSANs = v] :
           v \in {{"Kxg7"}, {"Ke8"}} }

\* two configurations set together, as two groups of options on one
\* command line
Both(f, g) ==
  [excludeMoves |-> f.excludeMoves \cup g.excludeMoves,
   excludeSANs |-> f.excludeSANs \cup g.excludeSANs,
   excludeFrom |-> f.excludeFrom \cup g.excludeFrom,
   excludeTo |-> f.excludeTo \cup g.excludeTo,
   excludeCaptures |-> f.excludeCaptures \/ g.excludeCaptures,
   excludeCapturesOf |-> f.excludeCapturesOf \cup g.excludeCapturesOf,
   excludeToAttacked |-> f.excludeToAttacked \/ g.excludeToAttacked,
   excludePromotionTo |-> f.excludePromotionTo \cup g.excludePromotionTo,
   excludeToCapturable |-> f.excludeToCapturable \/ g.excludeToCapturable,
   excludeAllowingCapture |->
     f.excludeAllowingCapture \/ g.excludeAllowingCapture,
   excludeAllowingFrom |-> f.excludeAllowingFrom \cup g.excludeAllowingFrom,
   excludeAllowingTo |-> f.excludeAllowingTo \cup g.excludeAllowingTo,
   excludeAllowingMoves |->
     f.excludeAllowingMoves \cup g.excludeAllowingMoves,
   excludeAllowingSANs |-> f.excludeAllowingSANs \cup g.excludeAllowingSANs]

FilterSet ==
  {NoFilter} \cup { Both(f, g) : f \in OneFilter, g \in OneFilter }

FilterInit ==
  /\ Idle
  /\ res = [done |-> FALSE]
  /\ arg \in { [fn |-> "allowed_move", f |-> f, mating_side |-> s,
                 pos |-> p, k |-> k] :
               f \in FilterSet, s \in {"w", "b"},
               p \in Positions, k \in 1..3 }
  /\ arg.k <= Len(Universe[arg.pos].moves)

\* allowed_move of a position and one of its legal moves
ApplyAllowedMove ==
  /\ arg.fn = "allowed_move" /\ ~res.done
  /\ res' = [done |-> TRUE,
             allowed |-> allowed_move(arg.f, arg.mating_side,
                                      Decode(arg.pos),
                                      legalmoves(Decode(arg.pos))[arg.k]),
             board |-> board_after_allowed_move(
                         arg.f, arg.mating_side,
                         BoardObject(Decode(arg.pos)),
                         legalmoves(Decode(arg.pos))[arg.k])]
  /\ UNCHANGED << pvars, arg >>

FilterNext == ApplyAllowedMove

FilterSpec == FilterInit /\ [][FilterNext]_vars

(***************************************************************************)
(* The first loop of prepare_opening_book: the lines of --openingMoves,    *)
(* each a sequence of tokens, are read in input order, and a line with a   *)
(* placeholder is replaced by one line for each reply that no earlier line *)
(* already gives.                                                          *)
(***************************************************************************)
RECURSIVE std_count(_, _)
std_count(line, token) ==
  IF line = << >> THEN 0
  ELSE (IF Head(line) = token THEN 1 ELSE 0) + std_count(Tail(line), token)

\* line.find('*')
star_pos(line) == CHOOSE k \in 1..Len(line) : line[k] = "*" /\
                    \A j \in 1..(k - 1) : line[j] # "*"
before_star(line) ==
  IF std_count(line, "*") = 0 THEN line ELSE SubSeq(line, 1, star_pos(line) - 1)
after_star(line) == SubSeq(line, star_pos(line) + 1, Len(line))

\* the board after the moves before the placeholder
RECURSIVE replay(_, _)
replay(board, moves) ==
  IF moves = << >> THEN board
  ELSE replay(makeMove(board, uciToMove(board, Head(moves))), Tail(moves))

\* variant of already_present that looks at the move in the place of the
\* placeholder only, not at the moves before it
already_present_anywhere(lines, moves, uci) ==
  \E j \in 1..Len(lines) :
    /\ Len(lines[j]) >= Len(moves) + 1
    /\ lines[j][Len(moves) + 1] = uci

\* an earlier line begins with the moves before the placeholder and goes
\* on with this reply
already_present(lines, moves, uci) ==
  \E j \in 1..Len(lines) :
    /\ Len(lines[j]) >= Len(moves) + 1
    /\ \A k \in 1..Len(moves) : lines[j][k] = moves[k]
    /\ lines[j][Len(moves) + 1] = uci

\* the loop over the legal replies
RECURSIVE expand_star(_, _, _, _)
expand_star(lines, moves, after_star_moves, legal_moves) ==
  IF legal_moves = << >> THEN lines
  ELSE LET uci == moveToUci(Head(legal_moves))
           new_line == moves \o <<uci>> \o after_star_moves
       IN expand_star(IF already_present(lines, moves, uci) THEN lines
                      ELSE Append(lines, new_line),
                      moves, after_star_moves, Tail(legal_moves))

\* variant of record_moves in which a later line overwrites the move of
\* an earlier one
RECURSIVE record_moves_overwrite(_, _, _, _)
record_moves_overwrite(board, mating_side, moves, book) ==
  IF moves = << >> THEN [fail |-> "", book |-> book]
  ELSE LET move_str == Head(moves)
           fen == getFen(board)
           book1 == IF sideToMove(board) = mating_side
                    THEN [k \in DOMAIN book \cup {fen} |->
                            IF k = fen THEN move_str ELSE book[k]]
                    ELSE book
           m == uciToMove(board, move_str)
           legal_moves == legalmoves(board)
       IN IF ~ \E k \in 1..Len(legal_moves) : legal_moves[k] = m
          THEN [fail |-> "illegal", book |-> book1]
          ELSE record_moves_overwrite(makeMove(board, m), mating_side,
                                      Tail(moves), book1)

\* variant of record_moves that records the move of either side
RECURSIVE record_moves_everyside(_, _, _, _)
record_moves_everyside(board, mating_side, moves, book) ==
  IF moves = << >> THEN [fail |-> "", book |-> book]
  ELSE LET move_str == Head(moves)
           fen == getFen(board)
           mine == TRUE
           book1 == IF mine
                    THEN [k \in DOMAIN book \cup {fen} |->
                            IF k = fen THEN move_str ELSE book[k]]
                    ELSE book
           m == uciToMove(board, move_str)
           legal_moves == legalmoves(board)
       IN IF mine /\ fen \in DOMAIN book /\ book[fen] # move_str
          THEN [fail |-> "conflict", book |-> book]
          ELSE IF ~ \E k \in 1..Len(legal_moves) : legal_moves[k] = m
          THEN [fail |-> "illegal", book |-> book1]
          ELSE record_moves_everyside(makeMove(board, m), mating_side,
                                      Tail(moves), book1)

\* the loop over the moves of one line: the book after the line, or the
\* reason why the program ends
RECURSIVE record_moves(_, _, _, _)
record_moves(board, mating_side, moves, book) ==
  IF moves = << >> THEN [fail |-> "", book |-> book]
  ELSE LET move_str == Head(moves)
           fen == getFen(board)
           mine == sideToMove(board) = mating_side
           book1 == IF mine
                    THEN [k \in DOMAIN book \cup {fen} |->
                            IF k = fen THEN move_str ELSE book[k]]
                    ELSE book
           m == uciToMove(board, move_str)
           legal_moves == legalmoves(board)
       IN IF mine /\ fen \in DOMAIN book /\ book[fen] # move_str
          THEN [fail |-> "conflict", book |-> book]
          ELSE IF ~ \E k \in 1..Len(legal_moves) : legal_moves[k] = m
          THEN [fail |-> "illegal", book |-> book1]
          ELSE record_moves(makeMove(board, m), mating_side, Tail(moves),
                            book1)

\* the lines that are tried, from the root A
BookLines ==
  { <<"a1a3", "h8g7">>, <<"a1a2", "h8g7">>, <<"a1a2", "h8g8", "a2a8">>,
    <<"k1k2", "h8h7">>, <<"a1a2", "*">>, <<"a1a2", "*", "a2b2">>,
    <<"a1a3", "*">>, <<"k1k2", "*", "k2k1">>, <<"*">>, <<"*", "*">> }

BookInputs == UNION { [1..n -> BookLines] : n \in 1..MaxLines }

BookInit ==
  /\ Idle
  /\ arg \in { [fn |-> "book", root_pos |-> "A", mating_side |-> s,
                 openingMoves |-> in, n |-> 0] :
               in \in BookInputs, s \in {"w", "b"} }
  /\ res = [done |-> FALSE, exit |-> FALSE, lines |-> << >>,
            before |-> << >>, line |-> << >>, why |-> "", recorded |-> 0,
            book |-> EmptyBook, returned |-> FALSE]

NextLine == arg.openingMoves[arg.n + 1]

BookReading ==
  arg.fn = "book" /\ ~res.exit /\ arg.n < Len(arg.openingMoves)

\* a line with more than one placeholder ends the program
BookTooManyStars ==
  /\ BookReading
  /\ std_count(NextLine, "*") > 1
  /\ arg' = [arg EXCEPT !.n = @ + 1]
  /\ res' = [res EXCEPT !.done = TRUE, !.exit = TRUE, !.why = "stars",
                         !.before = res.lines, !.line = NextLine]
  /\ UNCHANGED pvars

\* the moves are legal one after the other, from the board
RECURSIVE legal_from(_, _)
legal_from(board, moves) ==
  IF moves = << >> THEN TRUE
  ELSE LET ms == legalmoves(board)
       IN /\ \E k \in 1..Len(ms) : ms[k].uci = Head(moves)
          /\ legal_from(makeMove(board, uciToMove(board, Head(moves))),
                        Tail(moves))

\* a line with one placeholder, the moves before it legal
BookStarLine ==
  /\ BookReading
  /\ std_count(NextLine, "*") = 1
  /\ legal_from([pos |-> arg.root_pos, hmc |-> 0], before_star(NextLine))
  /\ LET moves == before_star(NextLine)
         board == replay([pos |-> arg.root_pos, hmc |-> 0], moves)
     IN res' = [res EXCEPT
                  !.done = TRUE,
                  !.lines = expand_star(res.lines, moves, after_star(NextLine),
                                        legalmoves(board)),
                  !.before = res.lines, !.line = NextLine]
  /\ arg' = [arg EXCEPT !.n = @ + 1]
  /\ UNCHANGED pvars

\* a line without a placeholder
BookPlainLine ==
  /\ BookReading
  /\ std_count(NextLine, "*") = 0
  /\ res' = [res EXCEPT !.done = TRUE,
                         !.lines = Append(res.lines, before_star(NextLine)),
                         !.before = res.lines, !.line = NextLine]
  /\ arg' = [arg EXCEPT !.n = @ + 1]
  /\ UNCHANGED pvars

\* the second loop: the lines are played from the root, and the moves of
\* the mating side are recorded
BookRecording ==
  /\ arg.fn = "book" /\ ~res.exit /\ ~res.returned
  /\ arg.n = Len(arg.openingMoves)

RecordNext ==
  record_moves([pos |-> arg.root_pos, hmc |-> 0], arg.mating_side,
               res.lines[res.recorded + 1], res.book)

\* a line all of whose moves are legal and agree with the book so far
BookRecordLine ==
  /\ BookRecording
  /\ res.recorded < Len(res.lines)
  /\ RecordNext.fail = ""
  /\ res' = [res EXCEPT !.recorded = @ + 1, !.book = RecordNext.book]
  /\ UNCHANGED << pvars, arg >>

\* a line that gives a position of the book another move ends the program
BookConflict ==
  /\ BookRecording
  /\ res.recorded < Len(res.lines)
  /\ RecordNext.fail = "conflict"
  /\ res' = [res EXCEPT !.exit = TRUE, !.why = "conflict",
                         !.book = RecordNext.book]
  /\ UNCHANGED << pvars, arg >>

\* a line with a move that is not legal ends the program
BookIllegal ==
  /\ BookRecording
  /\ res.recorded < Len(res.lines)
  /\ RecordNext.fail = "illegal"
  /\ res' = [res EXCEPT !.exit = TRUE, !.why = "illegal",
                         !.book = RecordNext.book]
  /\ UNCHANGED << pvars, arg >>

\* prepare_opening_book returns
BookReturn ==
  /\ BookRecording
  /\ res.recorded = Len(res.lines)
  /\ res' = [res EXCEPT !.returned = TRUE]
  /\ UNCHANGED << pvars, arg >>

BookNext ==
  \/ BookTooManyStars
  \/ BookStarLine
  \/ BookPlainLine
  \/ BookRecordLine
  \/ BookConflict
  \/ BookIllegal
  \/ BookReturn

BookSpec == BookInit /\ [][BookNext]_vars

(***************************************************************************)
(* prepare_opening_book on lines whose moves before the placeholder need   *)
(* not be legal.  The first loop makes these moves with                    *)
(* board.makeMove(uci::uciToMove(board, m)) and asks no question; what the *)
(* board is after a move that is not legal in it is not defined by the     *)
(* chess library, so the replies are those of any position.                *)
(***************************************************************************)
ReplayLines ==
  { <<"a1a2", "*">>, <<"a2a8", "*">>, <<"a2a8", "*", "h8g8">>,
    <<"a1a2", "h8g7">>, <<"a1a3", "h8g7">>, <<"a1a2", "a2a8", "*">>,
    <<"*", "*">> }

ReplayInputs == UNION { [1..n -> ReplayLines] : n \in 1..MaxReplayLines }

ReplayInit ==
  /\ Idle
  /\ arg \in { [fn |-> "book", root_pos |-> "A", mating_side |-> s,
                 openingMoves |-> in, n |-> 0] :
               in \in ReplayInputs, s \in {"w", "b"} }
  /\ res = [done |-> FALSE, exit |-> FALSE, lines |-> << >>,
            before |-> << >>, line |-> << >>, why |-> "", recorded |-> 0,
            book |-> EmptyBook, returned |-> FALSE]

\* a line with one placeholder and a move before it that is not legal:
\* the move is made all the same
BookStarLineUnchecked ==
  /\ BookReading
  /\ std_count(NextLine, "*") = 1
  /\ ~legal_from([pos |-> arg.root_pos, hmc |-> 0], before_star(NextLine))
  /\ \E p \in Positions :
       res' = [res EXCEPT
                 !.done = TRUE,
                 !.lines = expand_star(res.lines, before_star(NextLine),
                                       after_star(NextLine),
                                       legalmoves(Decode(p))),
                 !.before = res.lines, !.line = NextLine]
  /\ arg' = [arg EXCEPT !.n = @ + 1]
  /\ UNCHANGED pvars

ReplayNext == BookStarLineUnchecked \/ BookNext

ReplaySpec == ReplayInit /\ [][ReplayNext]_vars

(***************************************************************************)
(* One pass of the threaded generate_tb on a table of a given size, the    *)
(* scores left aside: the batches of the pass, and the walk of each task   *)
(* over its batch.                                                         *)
(***************************************************************************)
BatchInit ==
  /\ Idle
  /\ arg \in { [fn |-> "batches", size |-> n, concurrency |-> c] :
               n \in 0..MaxTbSize, c \in 1..MaxConcurrency }
  /\ res = [done |-> FALSE, tasks |-> << >>, visits |-> << >>]

\* the for loop that enqueues one task per batch
BatchSplit ==
  /\ arg.fn = "batches" /\ ~res.done
  /\ res' = [done |-> TRUE,
             tasks |-> GenBatches(arg.size,
                                  GenBatchSize(arg.size, arg.concurrency)),
             visits |-> [j \in 0..(arg.size - 1) |-> {}]]
  /\ UNCHANGED << pvars, arg >>

\* for (int j = batch_end - 1; j >= batch_start; --j): task t evaluates j
BatchVisit(t) ==
  /\ arg.fn = "batches" /\ res.done
  /\ res.tasks[t].k >= res.tasks[t].lo
  /\ res' = [res EXCEPT
               !.tasks[t].k = @ - 1,
               !.visits[res.tasks[t].k] = @ \cup {<< t, res.tasks[t].k >>}]
  /\ UNCHANGED << pvars, arg >>

BatchNext ==
  \/ BatchSplit
  \/ \E t \in 1..Len(res.tasks) : BatchVisit(t)

BatchSpec == BatchInit /\ [][BatchNext]_vars

(***************************************************************************)
(* The whole program, from the command line: the constructor reads the     *)
(* parts of --epd, each a sequence of characters, and then the program     *)
(* runs.                                                                   *)
(***************************************************************************)
\* the piece placement of the roots that are tried
Placement ==
  [A |-> <<"A">>, B1 |-> <<"B", "1">>, D1 |-> <<"D", "1">>]
\* Board(root_pos): the position of the first four parts
BoardOfEpd(root_pos) ==
  CHOOSE p \in DOMAIN Placement : Placement[p] = root_pos[1]

\* the operations that follow the first four parts
EpdOperations ==
  { << >>,
    << <<"b", "m">>, <<"#", "3", ";">> >>,
    << <<"b", "m">>, <<"#", "-", "2", ";">> >>,
    << <<"h", "m", "v", "c">>, <<"0", ";">>,
       <<"b", "m">>, <<"#", "-", "1", ";">> >>,
    << <<"b", "m">> >>,
    << <<"i", "d">>, <<"x", ";">>, <<"b", "m">> >>,
    << <<"b", "m">>, <<"#", "2", ";">>, <<"b", "m">>, <<"#", "-", "1", ";">> >>,
    << <<"b", "m">>, <<"#", "-", "2", ";">>, <<"b", "m">> >>,
    << <<"b", "m">>, <<"b", "m">>, <<"#", "-", "1", ";">> >>,
    << <<"a", "c", "d">>, <<"#", "-", "3", ";">> >> }

EpdInputs ==
  { << Placement[p], <<Universe[p].stm>>, <<"-">>, <<"-">> >> \o ops :
      p \in DOMAIN Placement, ops \in EpdOperations }
  \cup { << >>, << <<"A">> >>, << <<"A">>, <<"w">> >>,
         << <<"A">>, <<"w">>, <<"-">> >> }

\* std::string::find of a string of two characters
find(token, c1, c2) ==
  \E k \in 1..(Len(token) - 1) : token[k] = c1 /\ token[k + 1] = c2

\* the loop over the parts after the fourth: the side is flipped, kept,
\* or the part after the last one is read
RECURSIVE bm_scan(_, _)
bm_scan(parts, k) ==
  IF k > Len(parts) THEN "keep"
  ELSE IF parts[k] = <<"b", "m">>
       THEN IF k + 1 > Len(parts) THEN "past_end"
            ELSE IF find(parts[k + 1], "#", "-") THEN "flip"
            ELSE bm_scan(parts, k + 1)
       ELSE bm_scan(parts, k + 1)

EpdInit ==
  /\ Idle
  /\ arg \in { [fn |-> "epd", parts |-> ps, depth |-> d, line |-> l] :
               ps \in EpdInputs, d \in {0, MAX_DEPTH},
               l \in { << >>, <<"a1a3", "h8h7", "a3b3">> } }
  /\ (arg.line # << >>) => (Len(arg.parts) >= 4 /\ arg.parts[1] = <<"A">>)
  /\ res = [done |-> FALSE, past_end |-> FALSE]

\* the members that the constructor sets, for the mating side found
Constructed(side) ==
  LET root == BoardOfEpd(SubSeq(arg.parts, 1, 4))
  IN /\ options' = Option(root, arg.depth, side, NoFilter, 1, arg.line)
     /\ openingBook' = prepare_opening_book(root, side, arg.line)
     /\ variant' = "serial"
     /\ pc' = "init"
     /\ q' = << <<Encode([pos |-> root, hmc |-> 0]), 0>> >>
     /\ changed' = 1
     /\ UNCHANGED << fen2index, tb, count, depth, todo, i, iteration, tvars,
                     serial_result, out, file, arg >>

SideOfPart == IF arg.parts[2] = <<"b">> THEN "b" ELSE "w"

\* fewer than 4 parts: std::exit(1)
ConstructShort ==
  /\ arg.fn = "epd" /\ ~res.done
  /\ Len(arg.parts) < 4
  /\ res' = [res EXCEPT !.done = TRUE]
  /\ exit_code' = "1"
  /\ UNCHANGED << options, openingBook, variant, pc, fen2index, tb, q, count,
                  depth, todo, i, changed, iteration, tvars, serial_result,
                  out, file, arg >>

\* the constructor, when the loop stays within the parts
Construct ==
  /\ arg.fn = "epd" /\ ~res.done
  /\ Len(arg.parts) >= 4
  /\ bm_scan(arg.parts, 5) # "past_end"
  /\ res' = [res EXCEPT !.done = TRUE]
  /\ Constructed(IF bm_scan(arg.parts, 5) = "flip" THEN Opposite(SideOfPart)
                 ELSE SideOfPart)
  /\ exit_code' = "none"

\* the constructor, when the last part is bm: parts[i + 1] is read past
\* the end of the vector; the read may end the process, or yield a string
\* with or without "#-"
ConstructPastEnd ==
  /\ arg.fn = "epd" /\ ~res.done
  /\ Len(arg.parts) >= 4
  /\ bm_scan(arg.parts, 5) = "past_end"
  /\ res' = [res EXCEPT !.done = TRUE, !.past_end = TRUE]
  /\ \/ /\ exit_code' = "crash"
        /\ UNCHANGED << options, openingBook, variant, pc, fen2index, tb, q,
                        count, depth, todo, i, changed, iteration, tvars,
                        serial_result, out, file, arg >>
     \/ /\ exit_code' = "none"
        /\ \E side \in {SideOfPart, Opposite(SideOfPart)} : Constructed(side)

EpdNext ==
  \/ ConstructShort
  \/ Construct
  \/ ConstructPastEnd
  \/ Next

EpdSpec == EpdInit /\ [][EpdNext]_vars

(***************************************************************************)
(* C17.  A key without legal moves that is not in check has score 0 after  *)
(* initialize_tb, no children after connect_children and score 0 after     *)
(* generate_tb; and when it is inserted nothing is added to the frontier.  *)
(***************************************************************************)
\* the positions that the step that inserts a key adds to the frontier:
\* to the queue (serial), to the local next level of the task (threaded)
Enqueued ==
  IF variant = "serial"
  THEN [k \in 1..(Len(q') - Len(q) + 1) |-> q'[Len(q) - 1 + k][1]]
  ELSE LET t == CHOOSE t \in 1..Len(tasks) : tasks'[t].k # tasks[t].k
       IN SubSeq(tasks'[t].loc_next, Len(tasks[t].loc_next) + 1,
                 Len(tasks'[t].loc_next))

StalemateIsDrawnAndChildless ==
  \A p \in Keys :
    (IsStalemate(p) /\ fen2index[p] \in Ids) =>
       (ScoreOf(p) = 0 /\ tb[fen2index[p]].children = << >>)

C17_StalemateIsADeadEnd ==
  /\ [] StalemateIsDrawnAndChildless
  /\ [][ \A p \in Keys' \ Keys : IsStalemate(p) => Enqueued = << >> ]_vars

\* both programs have ended with a stalemate among the keys of a table
\* with other keys, and one with the stalemate as the root
C17_Witness ==
  /\ variant = "threaded" /\ pc = "done"
  /\ \E p \in Keys : IsStalemate(p) /\ p # options.root /\ ScoreOf(p) = 0
  /\ \E p \in Keys : ScoreOf(p) # 0

(***************************************************************************)
(* C19.  When a position that is a key of the opening book is inserted,    *)
(* the only successor that is enqueued is the one the book move leads to,  *)
(* whether or not allowed_move accepts that move; when any other position  *)
(* is inserted, the successors enqueued are those of the legal moves that  *)
(* allowed_move accepts.                                                   *)
(***************************************************************************)
InBook(p) == getFen(Decode(p)) \in DOMAIN openingBook
BookMove(p) == uciToMove(Decode(p), openingBook[getFen(Decode(p))])

Accepted(p) ==
  LET ok(m) == allowed_move(options.filter, options.mating_side, Decode(p), m)
      ms == SelectSeq(legalmoves(Decode(p)), ok)
  IN [k \in 1..Len(ms) |-> ms[k].next]

C19_BookMoveIsTheOnlyCandidate ==
  [][ \A p \in Keys' \ Keys :
        /\ InBook(p) => Enqueued = << BookMove(p).next >>
        /\ ~InBook(p) => Enqueued = Accepted(p) ]_vars

\* the book move of a key is one that allowed_move rejects, the position
\* it leads to is a key, and another successor of the key is not
C19_Witness ==
  /\ pc = "done"
  /\ \E p \in Keys :
       /\ InBook(p)
       /\ ~allowed_move(options.filter, options.mating_side, Decode(p),
                        BookMove(p))
       /\ BookMove(p).next \in Keys
       /\ \E s \in Successors(p) : s \notin Keys

(***************************************************************************)
(* C18.  allowed_move is true for every legal move of the side that is not *)
(* the mating side, whatever the filters; for a move of the mating side it *)
(* is true exactly when no configured filter rejects the move, a filter on *)
(* the replies rejecting when at least one legal reply after the move      *)
(* matches.                                                                *)
(***************************************************************************)
ArgBoard == Decode(arg.pos)
ArgMove == legalmoves(ArgBoard)[arg.k]
Replies == legalmoves(makeMove(ArgBoard, ArgMove))
SomeReply(Matches(_)) == \E k \in 1..Len(Replies) : Matches(Replies[k])

RejectedBy ==
  LET f == arg.f
      m == ArgMove
      capturesOnTarget(r) == r.cap # "" /\ r.to = m.to
      captures(r) == r.cap # ""
      fromListed(r) == r.from \in f.excludeAllowingFrom
      toListed(r) == r.to \in f.excludeAllowingTo
      uciListed(r) == r.uci \in f.excludeAllowingMoves
      sanListed(r) == r.san \in f.excludeAllowingSANs
  IN { "excludeMoves" : x \in {n \in {1} : m.uci \in f.excludeMoves} }
     \cup { "excludeSANs" : x \in {n \in {1} : m.san \in f.excludeSANs} }
     \cup { "excludeFrom" : x \in {n \in {1} : m.from \in f.excludeFrom} }
     \cup { "excludeTo" : x \in {n \in {1} : m.to \in f.excludeTo} }
     \cup { "excludeCaptures" :
              x \in {n \in {1} : f.excludeCaptures /\ m.cap # ""} }
     \cup { "excludeCapturesOf" :
              x \in {n \in {1} : m.cap # "" /\ m.cap \in f.excludeCapturesOf} }
     \cup { "excludeToAttacked" :
              x \in {n \in {1} : /\ f.excludeToAttacked
                                 /\ m.to \in Universe[arg.pos].attacked} }
     \cup { "excludePromotionTo" :
              x \in {n \in {1} : /\ m.promo # ""
                                 /\ m.promo \in f.excludePromotionTo} }
     \cup { "excludeToCapturable" :
              x \in {n \in {1} : /\ f.excludeToCapturable
                                 /\ SomeReply(capturesOnTarget)} }
     \cup { "excludeAllowingCapture" :
              x \in {n \in {1} : /\ f.excludeAllowingCapture
                                 /\ SomeReply(captures)} }
     \cup { "excludeAllowingFrom" : x \in {n \in {1} : SomeReply(fromListed)} }
     \cup { "excludeAllowingTo" : x \in {n \in {1} : SomeReply(toListed)} }
     \cup { "excludeAllowingMoves" : x \in {n \in {1} : SomeReply(uciListed)} }
     \cup { "excludeAllowingSANs" : x \in {n \in {1} : SomeReply(sanListed)} }

C18_AllowedIffNoFilterRejects ==
  (arg.fn = "allowed_move" /\ res.done) =>
     res.allowed = (\/ Universe[arg.pos].stm # arg.mating_side
                    \/ RejectedBy = {})

\* a move of the mating side that only a filter on the replies rejects,
\* one of whose replies matches and another does not
C18_Witness ==
  /\ arg.fn = "allowed_move" /\ res.done /\ ~res.allowed
  /\ RejectedBy = {"excludeToCapturable"}
  /\ Len(Replies) > 1

(***************************************************************************)
(* C20.  A line pre * post is replaced by the lines pre ++ [r] ++ post for *)
(* the legal replies r at the position after pre, except the replies that  *)
(* an earlier line already gives; the earlier lines are those recorded     *)
(* from the input before the placeholder line.                             *)
(***************************************************************************)
Pre == SubSeq(res.line, 1, star_pos(res.line) - 1)
Post == SubSeq(res.line, star_pos(res.line) + 1, Len(res.line))
RepliesAfterPre ==
  LET ms == legalmoves(replay([pos |-> arg.root_pos, hmc |-> 0], Pre))
  IN { ms[k].uci : k \in 1..Len(ms) }
Materialized ==
  { res.lines[k] : k \in (Len(res.before) + 1)..Len(res.lines) }
StarLineRead ==
  arg.fn = "book" /\ res.done /\ ~res.exit /\ std_count(res.line, "*") = 1
BeginsWithPre(line) ==
  Len(line) >= Len(Pre) /\ SubSeq(line, 1, Len(Pre)) = Pre

\* as the claim is worded: the reply is the |pre|-th move of some earlier
\* line
GivenAtThatPlace(r) ==
  \E k \in 1..Len(res.before) :
    Len(res.before[k]) > Len(Pre) /\ res.before[k][Len(Pre) + 1] = r
C20_SuppressedWhenAtThatPlace ==
  StarLineRead =>
    /\ res.before = SubSeq(res.lines, 1, Len(res.before))
    /\ Materialized =
         { Pre \o <<r>> \o Post :
             r \in { x \in RepliesAfterPre : ~GivenAtThatPlace(x) } }

\* as the code has it: the earlier line also begins with pre
GivenAfterPre(r) ==
  \E k \in 1..Len(res.before) :
    /\ BeginsWithPre(res.before[k])
    /\ Len(res.before[k]) > Len(Pre) /\ res.before[k][Len(Pre) + 1] = r
C20_SuppressedWhenGivenAfterPre ==
  StarLineRead =>
    /\ res.before = SubSeq(res.lines, 1, Len(res.before))
    /\ Len(res.lines) - Len(res.before) = Cardinality(Materialized)
    /\ Materialized =
         { Pre \o <<r>> \o Post :
             r \in { x \in RepliesAfterPre : ~GivenAfterPre(x) } }

\* a placeholder line of which one reply is suppressed by an earlier line
\* and another is materialized, with moves after the placeholder
C20_Witness ==
  /\ StarLineRead
  /\ Post # << >>
  /\ \E r \in RepliesAfterPre : GivenAfterPre(r)
  /\ Materialized # {}

(***************************************************************************)
(* C21.  prepare_opening_book ends the program with exit code 1 when a     *)
(* line has more than one placeholder, when two materialized lines give    *)
(* different moves to the same position of the mating side, or when a move *)
(* of a materialized line is not legal; it does not end the program when   *)
(* two lines give the same move to the same position; and when it returns, *)
(* every entry of the book is a legal move of its position.                *)
(***************************************************************************)
BookEnded == arg.fn = "book" /\ (res.exit \/ res.returned)
RootBoard == [pos |-> arg.root_pos, hmc |-> 0]
LegalAt(board, uci) ==
  \E k \in 1..Len(legalmoves(board)) : legalmoves(board)[k].uci = uci
\* the first n moves of the line are legal, one after the other
LegalUpTo(line, n) ==
  \A k \in 1..n : LegalAt(replay(RootBoard, SubSeq(line, 1, k - 1)), line[k])
SomeLineHasAnIllegalMove ==
  \E j \in 1..Len(res.lines) : ~LegalUpTo(res.lines[j], Len(res.lines[j]))
\* the pairs of a position of the mating side and the move a line gives it
Assigned(line) ==
  { << getFen(replay(RootBoard, SubSeq(line, 1, k - 1))), line[k] >> :
      k \in { n \in 1..Len(line) :
                /\ LegalUpTo(line, n - 1)
                /\ sideToMove(replay(RootBoard, SubSeq(line, 1, n - 1)))
                     = arg.mating_side } }
AllAssigned == UNION { Assigned(res.lines[j]) : j \in 1..Len(res.lines) }
TwoLinesDisagree ==
  \E a, b \in AllAssigned : a[1] = b[1] /\ a[2] # b[2]
TwoLinesAgree ==
  \E j, k \in 1..Len(res.lines) :
    j # k /\ Assigned(res.lines[j]) \cap Assigned(res.lines[k]) # {}
SomeLineHasTwoStars ==
  \E j \in 1..Len(arg.openingMoves) : std_count(arg.openingMoves[j], "*") > 1

C21_BookErrorsAreFatal ==
  /\ BookEnded =>
       /\ res.exit = (\/ SomeLineHasTwoStars
                      \/ TwoLinesDisagree
                      \/ SomeLineHasAnIllegalMove)
       /\ res.returned = ~res.exit
  /\ (arg.fn = "book" /\ res.returned) =>
       /\ DOMAIN res.book = { a[1] : a \in AllAssigned }
       /\ \A fen \in DOMAIN res.book :
            /\ << fen, res.book[fen] >> \in AllAssigned
            /\ LegalAt(Decode(fen), res.book[fen])

\* the book is returned although two lines give the same move to the same
\* position, and one line came from a placeholder
C21_Witness ==
  /\ arg.fn = "book" /\ res.returned
  /\ TwoLinesAgree
  /\ Len(res.lines) > Len(arg.openingMoves)

(***************************************************************************)
(* C22.  An EPD of fewer than 4 parts ends the process with exit code 1    *)
(* before a position is inserted or a book is compiled; a run that         *)
(* completes create_tb, output and the optional dump returns exit code 0.  *)
(***************************************************************************)
EpdIsShort == arg.fn = "epd" /\ Len(arg.parts) < 4
NothingWasBuilt ==
  /\ fen2index = EmptyMap /\ tb = EmptyTb /\ openingBook = EmptyBook
  /\ pc = "idle" /\ out = NoOut /\ file = NoFile
RunIsComplete ==
  /\ pc = "done" /\ out.line \in {"matetrack", "nomate"}
  /\ file.written => Len(file.lines) = Cardinality(DOMAIN fen2index)

C22_ExitCodes ==
  /\ (EpdIsShort /\ res.done) => (exit_code = "1" /\ NothingWasBuilt)
  /\ exit_code = "0" => RunIsComplete
  /\ (RunIsComplete /\ ~EpdIsShort) => exit_code \in {"none", "0"}

\* the threaded program has returned after the dump of a table with a
\* mate, for an EPD with operations
C22_Witness ==
  /\ arg.fn = "epd" /\ Len(arg.parts) > 4 /\ ~res.past_end
  /\ variant = "threaded" /\ exit_code = "0"
  /\ file.written /\ out.line = "matetrack"

\* an EPD of three parts has ended the process
C22_WitnessShort ==
  EpdIsShort /\ Len(arg.parts) = 3 /\ exit_code = "1"

(***************************************************************************)
(* C23.  For an EPD of at least 4 parts, also one whose last part is bm,   *)
(* the constructor sets mating_side to the side of part 2, and to the      *)
(* other side exactly when a bm among the parts after the fourth is        *)
(* followed by a part that contains "#-"; no part past the end is read.    *)
(***************************************************************************)
BmIsFollowedByMinus ==
  \E k \in 5..(Len(arg.parts) - 1) :
    arg.parts[k] = <<"b", "m">> /\ find(arg.parts[k + 1], "#", "-")
MatingSideOfEpd ==
  IF BmIsFollowedByMinus THEN Opposite(SideOfPart) ELSE SideOfPart

C23_MatingSideOfEpd ==
  (arg.fn = "epd" /\ Len(arg.parts) >= 4 /\ res.done) =>
     /\ ~res.past_end
     /\ exit_code # "crash" \/ pc = "done"
     /\ pc # "idle" /\ options.mating_side = MatingSideOfEpd

\* when the loop stays within the parts, the side is the one described
MatingSideWhenNoPartIsMissing ==
  (arg.fn = "epd" /\ Len(arg.parts) >= 4 /\ res.done /\ ~res.past_end) =>
     (pc # "idle" /\ options.mating_side = MatingSideOfEpd)

(***************************************************************************)
(* C24.  write_tb writes exactly one line for each key of M; a line has    *)
(* the annotation bm #k exactly when the score of its position is not 0,   *)
(* and then k = score2mate(score); write_tb changes neither M nor T.       *)
(***************************************************************************)
LinesOf(p) ==
  { k \in 1..Len(file.lines) : file.lines[k].fen = getFen(Decode(p)) }
FileIsTheTable ==
  file.written =>
    /\ Len(file.lines) = Cardinality(Keys)
    /\ \A p \in Keys :
         /\ Cardinality(LinesOf(p)) = 1
         /\ \A k \in LinesOf(p) :
              /\ (file.lines[k].bmstr # << >>) = (ScoreOf(p) # 0)
              /\ ScoreOf(p) # 0 =>
                   file.lines[k].bmstr = << score2mate(ScoreOf(p)) >>

C24_DumpIsTheTable ==
  /\ [] FileIsTheTable
  /\ [][ (file'.written /\ ~file.written) =>
          (fen2index' = fen2index /\ tb' = tb) ]_vars

\* the dump of the threaded program has lines with and without the
\* annotation, for a win and for a loss
C24_Witness ==
  /\ variant = "threaded" /\ file.written
  /\ \E k \in 1..Len(file.lines) : file.lines[k].bmstr = << >>
  /\ \E k, j \in 1..Len(file.lines) :
       /\ file.lines[k].bmstr # << >> /\ file.lines[j].bmstr # << >>
       /\ file.lines[k].bmstr[1] > 0 /\ file.lines[j].bmstr[1] < 0

(***************************************************************************)
(* C25.  No write of generate_tb decreases |score| of a node: a write over *)
(* a score that is not 0 stores a score of strictly larger absolute value, *)
(* and a positive score is replaced by a larger positive score only; in    *)
(* the serial sweep and in every interleaving of the threaded batches.     *)
(***************************************************************************)
\* the nodes whose score the step writes, in either program
Rewritten ==
  { id \in DOMAIN tb \cap DOMAIN tb' : tb'[id].score # tb[id].score }

C25_WritesGrowTheDistanceFromZero ==
  [][ \A id \in Rewritten :
        /\ Abs(tb'[id].score) > Abs(tb[id].score)
        /\ tb[id].score > 0 => tb'[id].score > tb[id].score ]_vars

\* the score that task t is about to store in its node, when it differs
PendingWrite(t) ==
  LET j == tasks[t].k
      ch == tb[j].children
      best_score == IF ch = << >> THEN tasks[t].best
                    ELSE better(tasks[t].best,
                                propagate(tb[ch[Len(ch)]].score))
  IN IF /\ tasks[t].ci >= Len(ch)
        /\ best_score # VALUE_NONE /\ tb[j].score # best_score
     THEN {[id |-> j, from |-> tb[j].score, to |-> best_score]}
     ELSE {}
PendingWrites ==
  IF pc # "sweep" THEN {}
  ELSE IF variant = "serial"
  THEN IF i < 0 THEN {}
       ELSE LET best_score == best_of(tb, tb[i].children, VALUE_NONE)
            IN IF best_score # VALUE_NONE /\ tb[i].score # best_score
               THEN {[id |-> i, from |-> tb[i].score, to |-> best_score]}
               ELSE {}
  ELSE UNION { PendingWrite(t) :
                 t \in { u \in 1..Len(tasks) :
                           /\ tasks[u].st = "running"
                           /\ tasks[u].k >= tasks[u].lo } }

\* a task of the threaded program is about to replace a positive score
\* while another task is running
C25_Witness ==
  /\ variant = "threaded"
  /\ \E w \in PendingWrites : w.from > 0
  /\ Cardinality({ t \in 1..Len(tasks) : tasks[t].st = "running" }) > 1

(***************************************************************************)
(* C26.  During generate_tb a write over a negative score stores a score   *)
(* that encodes a longer loss, a less negative one, until the score is     *)
(* stable.                                                                 *)
(***************************************************************************)
C26_LossesGetLonger ==
  [][ \A id \in Rewritten :
        tb[id].score < 0 =>
          (tb'[id].score < 0 /\ tb'[id].score > tb[id].score) ]_vars

\* as the code has it: the loss gets shorter, the score more negative
C26_LossesGetShorter ==
  [][ \A id \in Rewritten :
        tb[id].score < 0 =>
          /\ tb'[id].score < tb[id].score
          /\ score2mate(tb'[id].score) > score2mate(tb[id].score) ]_vars

\* a negative score is about to be replaced
C26_Witness ==
  \E w \in PendingWrites : w.from < 0

(***************************************************************************)
(* C27.  The threaded generate_tb leaves its loop only after a pass in     *)
(* which no task wrote a score: when a task writes a score in a pass, the  *)
(* counter changed that the main thread reads after pool.wait() is not 0,  *)
(* in every interleaving of the tasks.                                     *)
(***************************************************************************)
InThreadedPass == variant = "threaded" /\ pc = "sweep"
RECURSIVE WritesOf(_)
WritesOf(ts) ==
  IF ts = << >> THEN 0
  ELSE (IF Head(ts).st = "done" THEN Head(ts).batch_changed ELSE 0)
         + WritesOf(Tail(ts))
\* the counter is the number of writes of the tasks that have ended
CounterIsTheWritesOfEndedTasks ==
  InThreadedPass => changed = WritesOf(tasks)
\* a step of a pass writes a score exactly when it counts one more write
\* in its task
WriteIsCounted ==
  (InThreadedPass /\ pc' = "sweep") =>
     /\ Cardinality(Rewritten) <= 1
     /\ (Rewritten # {}) =
          (\E t \in 1..Len(tasks) :
             tasks'[t].batch_changed = tasks[t].batch_changed + 1)
     /\ \A t \in 1..Len(tasks) :
          tasks'[t].batch_changed \in
            {tasks[t].batch_changed, tasks[t].batch_changed + 1}
\* pool.wait() returns when every task has ended, with the counter as it is
WaitReadsTheCounter ==
  (InThreadedPass /\ pc' # "sweep") =>
     (AllDone /\ pc' = "generate" /\ changed' = changed /\ tb' = tb)
\* the loop is left when the counter is 0 after a pass
ExitAfterAQuietPass ==
  (variant = "threaded" /\ pc = "generate" /\ pc' = "done") =>
     (changed = 0 /\ iteration >= 1 /\ tb' = tb)

C27_NoExitAfterAWrite ==
  /\ [] CounterIsTheWritesOfEndedTasks
  /\ [][ WriteIsCounted /\ WaitReadsTheCounter /\ ExitAfterAQuietPass ]_vars

\* the second pass or a later one has ended with two tasks, one that wrote
\* and one that did not
C27_Witness ==
  /\ InThreadedPass /\ AllDone /\ iteration >= 1
  /\ \E t, u \in 1..Len(tasks) :
       tasks[t].batch_changed > 0 /\ tasks[u].batch_changed = 0

(***************************************************************************)
(* C28.  In the threaded program no task of connect_children starts before *)
(* every task of initialize_tb has ended and the mate scores are seeded,   *)
(* no task of generate_tb starts before every task of connect_children has *)
(* ended, no task of level d + 1 before every task of level d has ended,   *)
(* and no task of pass k + 1 before every task of pass k has ended.        *)
(***************************************************************************)
Unfinished == { t \in 1..Len(tasks) : tasks[t].st # "done" }
\* the step puts tasks into the pool
Enqueues ==
  \E t \in 1..Len(tasks') :
    tasks'[t].st = "queued" /\ (t > Len(tasks) \/ tasks[t].st # "queued")
\* the step moves on to another level, phase or pass
MovesOn ==
  \/ pc' # pc \/ depth' # depth \/ iteration' # iteration
  \/ current_level' # current_level
\* initialize_tb has ended: every key has its node, the mates their score
Seeded ==
  /\ DOMAIN tb = 0..(count - 1) /\ count = Cardinality(Keys)
  /\ \A p \in Keys : IsCheckmate(p) => ScoreOf(p) = -VALUE_MATE
\* connect_children has ended: every node has its children
Connected ==
  \A p \in Keys :
    ~IsCheckmate(p) =>
      LET kept == SelectSeq(Universe[p].moves, InTable)
      IN tb[fen2index[p]].children =
           [k \in 1..Len(kept) |-> fen2index[kept[k].next]]
TasksAreOfOnePhase ==
  (variant = "threaded" /\ tasks # << >>) =>
     /\ pc \in {"init", "connect", "sweep"}
     /\ pc = "init" =>
          \A t \in 1..Len(tasks) :
            1 <= tasks[t].lo /\ tasks[t].hi <= Len(current_level)
     /\ pc = "connect" => Seeded
     /\ pc = "sweep" => (Seeded /\ Connected)

C28_Barriers ==
  /\ [] TasksAreOfOnePhase
  /\ [][ (variant = "threaded" /\ variant' = "threaded") =>
           /\ MovesOn => Unfinished = {}
           /\ Enqueues => Unfinished = {}
           /\ Len(tasks') # Len(tasks) => Unfinished = {} ]_vars

\* a task of a later pass of generate_tb runs while another one of that
\* pass has not started
C28_Witness ==
  /\ variant = "threaded" /\ pc = "sweep" /\ iteration >= 1
  /\ \E t, u \in 1..Len(tasks) :
       tasks[t].st = "running" /\ tasks[u].st = "queued"

(***************************************************************************)
(* C29.  When a position occurs several times in a frontier, or in the     *)
(* frontiers of several levels, also in batches that run at the same time, *)
(* one occurrence inserts it, gets a fresh id and expands its candidate    *)
(* moves; every other occurrence is skipped.  No candidate successor of an *)
(* expanded position is lost from the next frontier.                       *)
(***************************************************************************)
Occ(seq, x) == Cardinality({ k \in 1..Len(seq) : seq[k] = x })
\* what the tasks that have not ended hold back for the next frontier
RECURSIVE HeldBack(_, _, _)
HeldBack(ts, n, x) ==
  IF n = 0 THEN 0
  ELSE HeldBack(ts, n - 1, x)
       + (IF ts[n].st = "done" THEN 0 ELSE Occ(ts[n].loc_next, x))
\* how often x is on its way into the next frontier
Coming(x) == Occ(next_level, x) + HeldBack(tasks, Len(tasks), x)
\* the candidate successors of a position, in the order of the moves
CandidateList(p) == IF InBook(p) THEN << BookMove(p).next >> ELSE Accepted(p)
\* every place of the frontier belongs to one batch; a place that a batch
\* has passed holds a key
EveryOccurrenceIsVisitedOnce ==
  (variant = "threaded" /\ pc = "init" /\ tasks # << >>) =>
     \A k \in 1..Len(current_level) :
       /\ Cardinality({ t \in 1..Len(tasks) :
                          tasks[t].lo <= k /\ k <= tasks[t].hi }) = 1
       /\ \A t \in 1..Len(tasks) :
            (tasks[t].lo <= k /\ k < tasks[t].k) => current_level[k] \in Keys
InsertedOnceExpandedOnce ==
  (variant = "threaded" /\ pc = "init" /\ tasks # << >> /\ pc' = "init"
     /\ Len(tasks') = Len(tasks)) =>
     /\ Cardinality(Keys' \ Keys) <= 1
     /\ \A p \in Keys : p \in Keys' /\ fen2index'[p] = fen2index[p]
     /\ \A p \in Keys' \ Keys : fen2index'[p] = count /\ count' = count + 1
     /\ Keys' = Keys => count' = count
     /\ \A x \in DOMAIN Universe :
          Coming(x)' =
            Coming(x) + (IF Keys' = Keys THEN 0
                         ELSE LET p == CHOOSE p \in Keys' \ Keys : TRUE
                              IN Occ(CandidateList(p), x))
\* the next frontier is what was coming, and nothing of this one was left
NextFrontierIsWhatWasComing ==
  (variant = "threaded" /\ pc = "init" /\ depth' # depth) =>
     /\ \A x \in DOMAIN Universe : Occ(current_level', x) = Coming(x)
     /\ \A k \in 1..Len(current_level) : current_level[k] \in Keys

C29_InsertIfAbsent ==
  /\ [] EveryOccurrenceIsVisitedOnce
  /\ [][ InsertedOnceExpandedOnce /\ NextFrontierIsWhatWasComing ]_vars

\* two batches run at the same time, a position is in both, and both have
\* passed it
C29_Witness ==
  /\ variant = "threaded" /\ pc = "init"
  /\ \E t, u \in 1..Len(tasks) :
       /\ t # u /\ tasks[t].st = "running" /\ tasks[u].st = "running"
       /\ \E a \in tasks[t].lo..(tasks[t].k - 1) :
            \E b \in tasks[u].lo..(tasks[u].k - 1) :
              current_level[a] = current_level[b]

(***************************************************************************)
(* C30.  In the threaded enumeration a new key gets the value the counter  *)
(* had before the increment, and the node of an id is in the table before  *)
(* another thread can see the id: every id of the map is smaller than the  *)
(* size of the table, in every state.                                      *)
(***************************************************************************)
NewKeyGetsTheCounter ==
  (variant = "threaded" /\ variant' = "threaded") =>
     \A p \in Keys' \ Keys : fen2index'[p] = count /\ count' = count + 1
IdsAreBelowTheTableSize ==
  variant = "threaded" => \A p \in Keys : fen2index[p] < TbSize(tb)

IdsAreBelowTheCounter ==
  variant = "threaded" =>
     /\ \A p \in Keys : fen2index[p] < count
     /\ pc = "init" => TbSize(tb) = 0
     /\ pc # "init" => TbSize(tb) = count

InConnectTasks == variant = "threaded" /\ pc = "connect" /\ tasks # << >>
\* the id whose children list task t writes
OwnId(t) == fen2index[todo[tasks[t].k]]
TasksOwnDistinctIds ==
  InConnectTasks =>
     /\ \A t \in 1..Len(tasks) : todo[tasks[t].k] \in Keys
     /\ \A t, u \in 1..Len(tasks) : t # u => OwnId(t) # OwnId(u)
     \* a list that no task has written yet is empty
     /\ \A t \in 1..Len(tasks) :
          tasks[t].st # "done" => tb[OwnId(t)].children = << >>
\* what a task reads: the map, and the score of its own node
WrittenBy(t) ==
  IF tb[OwnId(t)].score # 0 THEN << >>
  ELSE LET kept == SelectSeq(Universe[todo[tasks[t].k]].moves, InTable)
       IN [k \in 1..Len(kept) |-> fen2index[kept[k].next]]
ConnectStepWritesItsOwnList ==
  (InConnectTasks /\ pc' = "connect" /\ Len(tasks') = Len(tasks)) =>
     /\ fen2index' = fen2index
     /\ DOMAIN tb' = DOMAIN tb
     /\ \A id \in Ids : tb'[id].score = tb[id].score
     /\ \A t \in 1..Len(tasks) :
          IF tasks[t].st = "running" /\ tasks'[t].st = "done"
          THEN /\ tb'[OwnId(t)].children = WrittenBy(t)
               /\ \A id \in Ids \ {OwnId(t)} :
                    tb'[id].children = tb[id].children
          ELSE tb'[OwnId(t)].children = tb[OwnId(t)].children

C31_ConnectTasksDoNotInterfere ==
  []TasksOwnDistinctIds /\ [][ConnectStepWritesItsOwnList]_vars

\* two tasks run at the same time, a third one has written a list
C31_Witness ==
  /\ InConnectTasks
  /\ Cardinality(Running) = 2
  /\ \E t \in 1..Len(tasks) :
       tasks[t].st = "done" /\ tb[OwnId(t)].children # << >>

(***************************************************************************)
(* C32.  connect_children changes children lists only, generate_tb changes *)
(* scores only, the steps after generate_tb (probe_tb, obtain_pv, output,  *)
(* write_tb) change neither the map nor the table, and no step of a        *)
(* program changes the opening book, the lookups of the concurrent         *)
(* enumeration included.                                                   *)
(***************************************************************************)
SameKeysAndSize == fen2index' = fen2index /\ DOMAIN tb' = DOMAIN tb
SameScores == \A id \in Ids : tb'[id].score = tb[id].score
SameChildren == \A id \in Ids : tb'[id].children = tb[id].children
LifecycleFrame ==
  variant' = variant =>
     /\ openingBook' = openingBook
     /\ pc = "connect" => (SameKeysAndSize /\ SameScores)
     /\ InGenerate => (SameKeysAndSize /\ SameChildren)
     /\ pc = "done" => (fen2index' = fen2index /\ tb' = tb)

C32_LifecycleFrame == [][LifecycleFrame]_vars

\* a threaded program with a book has connected, has written a score that
\* is no mate score, has printed and has written the file
C32_Witness ==
  /\ variant = "threaded" /\ pc = "done"
  /\ openingBook # EmptyBook
  /\ out # NoOut /\ file.written
  /\ \E p \in Keys :
       /\ tb[fen2index[p]].children # << >>
       /\ ScoreOf(p) \notin {0, -VALUE_MATE}
       /\ ~InBook(p)

(***************************************************************************)
(* C33.  allowed_move leaves the board it is given unchanged on every      *)
(* return path: the provisional makeMove is undone by one unmakeMove when  *)
(* a reply rejects the move and when no reply does, so the encoding of the *)
(* board after the call is its encoding before the call.                   *)
(***************************************************************************)
C33_AllowedMoveRestoresTheBoard ==
  (arg.fn = "allowed_move" /\ res.done) =>
     /\ res.board = BoardObject(Decode(arg.pos))
     /\ Encode(res.board.board) = Encode(Decode(arg.pos))

\* the replies were generated
RepliesWereGenerated ==
  /\ arg.fn = "allowed_move" /\ res.done
  /\ Universe[arg.pos].stm = arg.mating_side
  /\ needToGenerateResponses(arg.f)
  /\ allowed_move(BeforeResponses(arg.f), arg.mating_side, ArgBoard, ArgMove)
\* a reply has rejected the move
C33_Witness == RepliesWereGenerated /\ ~res.allowed /\ Replies # << >>
\* no reply has rejected the move
C33_WitnessAllowed == RepliesWereGenerated /\ res.allowed /\ Replies # << >>

(***************************************************************************)
(* C34.  After prepare_opening_book has returned, every key of the book is *)
(* the FEN without clocks of a position in which the mating side is to     *)
(* move, and its entry is the move that a materialized line plays from     *)
(* that position; no position in which the other side is to move has an    *)
(* entry.                                                                  *)
(***************************************************************************)
\* line j plays the move uci from the position fen
Plays(j, fen, uci) ==
  \E k \in 1..Len(res.lines[j]) :
    /\ getFen(replay(RootBoard, SubSeq(res.lines[j], 1, k - 1))) = fen
    /\ res.lines[j][k] = uci
\* the positions in which the other side is to move that a line passes
PassedByTheOtherSide ==
  { fen \in UNION { { getFen(replay(RootBoard,
                                     SubSeq(res.lines[j], 1, k - 1))) :
                        k \in 1..Len(res.lines[j]) } :
                    j \in 1..Len(res.lines) } :
      sideToMove(Decode(fen)) # arg.mating_side }

C34_KeysAreOfTheMatingSide ==
  (arg.fn = "book" /\ res.returned) =>
     /\ \A fen \in DOMAIN res.book :
          /\ fen \in Positions
          /\ sideToMove(Decode(fen)) = arg.mating_side
          /\ \E j \in 1..Len(res.lines) : Plays(j, fen, res.book[fen])
     /\ PassedByTheOtherSide \cap DOMAIN res.book = {}

\* a book of two entries at least is returned, and a line has passed a
\* position in which the other side is to move and has gone on from it
C34_Witness ==
  /\ arg.fn = "book" /\ res.returned
  /\ Cardinality(DOMAIN res.book) >= 2
  /\ \E j \in 1..Len(res.lines) :
       \E k \in 1..Len(res.lines[j]) :
         sideToMove(replay(RootBoard, SubSeq(res.lines[j], 1, k - 1)))
           # arg.mating_side

(***************************************************************************)
(* C35.  In prepare_opening_book every move that is made on a board has    *)
(* been checked before to be a legal move of the position of that board:   *)
(* no move of the input, the moves before a placeholder included, is made  *)
(* without a check that would end the process with exit code 1.            *)
(***************************************************************************)
\* the line read last has a placeholder; the moves before it were made
StarLineWasReplayed ==
  /\ arg.fn = "book" /\ res.done /\ ~res.exit
  /\ std_count(res.line, "*") = 1
C35_MadeMovesAreLegal ==
  StarLineWasReplayed => legal_from(RootBoard, before_star(res.line))

\* the process has returned although a move that is not legal was made
C35_ReturnedAfterAnIllegalMove ==
  /\ arg.fn = "book" /\ res.returned
  /\ \E j \in 1..Len(arg.openingMoves) :
       /\ std_count(arg.openingMoves[j], "*") = 1
       /\ ~legal_from(RootBoard, before_star(arg.openingMoves[j]))

(***************************************************************************)
(* C36.  In every state of initialize_tb, connect_children and generate_tb *)
(* (also between the read and the write of a task) every stored score s    *)
(* has -MATE <= s <= MATE - 1, so it fits 16 bits and is not NONE; MATE - s *)
(* is odd for a positive s and MATE + s is even for a negative s, so       *)
(* score2mate does not truncate a stored score.                            *)
(***************************************************************************)
InRangeWithParity(s) ==
  /\ -VALUE_MATE <= s /\ s <= VALUE_MATE - 1
  /\ s = ToInt16(s) /\ s # VALUE_NONE
  /\ s > 0 => (VALUE_MATE - s) % 2 = 1
  /\ s < 0 => (VALUE_MATE + s) % 2 = 0
NotTruncated(s) ==
  /\ s > 0 => 2 * score2mate(s) = VALUE_MATE - s + 1
  /\ s < 0 => -2 * score2mate(s) = VALUE_MATE + s

C36_ScoresInRangeWithParity ==
  \A id \in Ids : InRangeWithParity(tb[id].score) /\ NotTruncated(tb[id].score)

\* a task of a pass has read and not yet written, and the table holds a
\* win and a loss that is no mate
C36_Witness ==
  /\ variant = "threaded" /\ pc = "sweep"
  /\ \E t \in Running : tasks[t].best # VALUE_NONE
  /\ \E a, b \in Ids :
       /\ tb[a].score > 0
       /\ tb[b].score < 0 /\ tb[b].score # -VALUE_MATE

(***************************************************************************)
(* C37.  Ids respect the depth of the first visit: of two keys, the one    *)
(* first reached at the smaller depth has the smaller id, and the root has *)
(* id 0; in the serial program by the queue, in every interleaving of the  *)
(* threaded program by the barrier between the levels.                     *)
(***************************************************************************)
\* the pairs of a position and the depth at which it is first reached
RECURSIVE Levels(_, _, _)
Levels(seen, frontier, d) ==
  IF frontier = {} THEN {}
  ELSE { << p, d >> : p \in frontier } \cup
       Levels(seen \cup frontier,
              UNION { Candidates(p) : p \in frontier } \ (seen \cup frontier),
              d + 1)
FirstReached == Levels({}, {options.root}, 0)

C37_IdsRespectDepth ==
  pc # "idle" =>
    LET fr == { a \in FirstReached : a[1] \in Keys }
    IN /\ options.root \in Keys => fen2index[options.root] = 0
       /\ \A a, b \in fr :
            a[2] < b[2] => fen2index[a[1]] < fen2index[b[1]]

\* two batches of a level below the root run at the same time, and a key
\* of the later batch has the smaller id: both keys are first reached at
\* this level, and neither id is below that of a key of the level before
C37_Witness ==
  /\ variant = "threaded" /\ pc = "init" /\ depth >= 1
  /\ Cardinality(Running) = 2
  /\ \E a, b \in 1..Len(current_level) :
       /\ a < b
       /\ current_level[a] \in Keys /\ current_level[b] \in Keys
       /\ << current_level[a], depth >> \in FirstReached
       /\ << current_level[b], depth >> \in FirstReached
       /\ \A k \in 1..(a - 1) : current_level[k] # current_level[b]
       /\ fen2index[current_level[b]] < fen2index[current_level[a]]

(***************************************************************************)
(* C38.  output() reads the first entry of the sorted list only when the   *)
(* list is not empty: for a root without legal moves (a checkmate or a     *)
(* stalemate, for instance with max_depth = 0) the report completes and    *)
(* prints "No mate found".                                                 *)
(***************************************************************************)
RootIsTerminal == Universe[options.root].moves = << >>
C38_TerminalRootReportsNoMate ==
  (out # NoOut /\ RootIsTerminal) =>
     (out.line = "nomate" /\ exit_code # "crash")

\* for a root with a legal move the first entry is there
C38_FirstEntryIsThere ==
  (out # NoOut /\ ~RootIsTerminal) =>
     (out.sp # << >> /\ out.line \in {"nomate", "matetrack"})

(***************************************************************************)
(* C39.  initialize_tb terminates for every finite set of reachable        *)
(* positions, also with unlimited max_depth and a position graph with      *)
(* cycles: the enumeration stops when a frontier has no new position or    *)
(* the depth exceeds max_depth.                                            *)
(***************************************************************************)
\* why the loop of initialize_tb was left
FrontierIsEmptyOrTooDeep ==
  IF variant = "serial"
  THEN q = << >> \/ Head(q)[2] > options.max_depth
  ELSE current_level = << >> \/ depth > options.max_depth

C39_InitializeTerminates ==
  /\ (pc = "init") ~> (pc = "connect")
  /\ [](pc = "connect" => FrontierIsEmptyOrTooDeep)

\* the threaded enumeration has ended without a limit of the depth, on keys
\* one of which is reached again from itself
C39_Witness ==
  /\ variant = "threaded" /\ pc = "connect"
  /\ options.max_depth = MAX_DEPTH
  /\ current_level = << >>
  /\ \E p \in Keys : p \in Grow(Candidates(p), Cardinality(Positions))

(***************************************************************************)
(* C40.  In a pass of the threaded generate_tb the batches partition the   *)
(* index range: every index of the table is evaluated by one task, once    *)
(* (none is skipped, none evaluated twice), for every size of the table,   *)
(* 0 and the sizes that are no multiple of the batch size included, so the *)
(* score of a node is written by at most one task in a pass.               *)
(***************************************************************************)
BatchesAreSet == arg.fn = "batches" /\ res.done
Owners(j) ==
  { t \in 1..Len(res.tasks) : res.tasks[t].lo <= j /\ j < res.tasks[t].hi }
PassIsOver ==
  BatchesAreSet /\ \A t \in 1..Len(res.tasks) : res.tasks[t].k < res.tasks[t].lo

C40_BatchesPartitionTheTable ==
  BatchesAreSet =>
     /\ \A t \in 1..Len(res.tasks) :
          /\ 0 <= res.tasks[t].lo /\ res.tasks[t].lo < res.tasks[t].hi
          /\ res.tasks[t].hi <= arg.size
     /\ arg.size = 0 => res.tasks = << >>
     /\ \A j \in 0..(arg.size - 1) :
          /\ Cardinality(Owners(j)) = 1
          /\ Cardinality(res.visits[j]) <= 1
          /\ \A v \in res.visits[j] : v[1] \in Owners(j) /\ v[2] = j
          /\ PassIsOver => Cardinality(res.visits[j]) = 1

\* a pass is over on a table whose size is no multiple of the batch size
C40_Witness ==
  /\ PassIsOver
  /\ Len(res.tasks) >= 2
  /\ arg.size % GenBatchSize(arg.size, arg.concurrency) # 0
\* a pass is over on a table without nodes
C40_WitnessEmpty == PassIsOver /\ arg.size = 0
====
